---- MODULE Spec2Model ----
(***************************************************************************)
(* Verification model of the hive agent runtime.                           *)
(*                                                                         *)
(* Part I: GraphExecutor.execute (core/framework/graph/executor.py).       *)
(* One behaviour fixes an executor set-up (a graph, its step and retry     *)
(* budgets and the node registry) and then performs a bounded number of    *)
(* execute() calls against it; a call that paused may be resumed with the  *)
(* session state it returned.  GraphSpec, EdgeSpec, NodeContext,           *)
(* SharedMemory and Runtime live in modules outside the sources at hand    *)
(* (framework.graph.edge, framework.graph.node, framework.runtime.core)    *)
(* and follow the specification's sections 3, 4.2, 4.3, 4.6 and 4.7.       *)
(* Token and latency totals are not modelled.                              *)
(*                                                                         *)
(* Part II: WorkerNode.execute and parse_llm_json_response                 *)
(* (core/framework/graph/worker_node.py).  One behaviour fixes a worker    *)
(* (its LLM, tools, tool executor, functions and sub-graph executor) and   *)
(* executes a bounded number of plan steps; what the callee of a step      *)
(* answers is drawn from a set of environments.  PlanStep and ActionSpec   *)
(* (framework.graph.plan), the Runtime decision log, the LLM provider and  *)
(* the code sandbox are outside the sources at hand and follow the         *)
(* specification's sections 4.3, 4.5 and 4.8.                              *)
(*                                                                         *)
(* Part III: MCPClient (core/framework/runner/mcp_client.py).  One         *)
(* behaviour fixes a server configuration and makes a bounded number of    *)
(* public calls from one caller thread.  Over stdio the background thread  *)
(* of each connect attempt (run_event_loop and init_connection) takes its  *)
(* own steps, the caller's waits on loop_started and connection_ready may  *)
(* end by the event or by the timeout, and the tool server answers a       *)
(* request with a result, an error or an exception, or never.  The MCP     *)
(* SDK (ClientSession, stdio_client) and httpx are outside the sources at  *)
(* hand; a session without read timeout waits for its answer.              *)
(*                                                                         *)
(* Part IV: the test harness (core/framework/testing): ErrorCategorizer    *)
(* (categorizer.py), TestExecutor (executor.py) and ParallelTestRunner     *)
(* (parallel.py). One behaviour fixes num_workers, fail_fast and the tests *)
(* and makes one run_all call. The pool follows CPython's                  *)
(* ThreadPoolExecutor: submit queues the work item and starts a thread     *)
(* only if no worker is idle and fewer than max_workers threads exist; a   *)
(* started thread runs the initializer and then takes work items; the      *)
(* caller's submits, the workers' steps and the as_completed loop          *)
(* interleave freely. Under RunnerSpec every test returns, the agent       *)
(* factory creates its agent and no storage is given; under HarnessSpec    *)
(* one test may be slow, hang or raise, the agent factory may raise and a  *)
(* storage may be given. Test and TestStorage                              *)
(* (framework.testing.test_case, test_storage) are outside the sources at  *)
(* hand and follow the specification's section 3.                          *)
(*                                                                         *)
(* Part V: BuilderQuery.analyze_failure (core/framework/builder/query.py). *)
(* One behaviour fixes the runs a storage holds and makes one              *)
(* analyze_failure call. Run, Decision, Outcome and FileStorage            *)
(* (framework.schemas, framework.storage) are outside the sources at hand  *)
(* and follow the specification's sections 3 and 4.1.                      *)
(*                                                                         *)
(* Part VI: the build session of the agent builder server                  *)
(* (core/framework/mcp/agent_builder_server.py). One behaviour starts from *)
(* the session create_session makes and performs a bounded number of       *)
(* add_node, add_edge, update_node, delete_node and delete_edge calls,     *)
(* whose JSON arguments are parsed as json.loads parses them.              *)
(*                                                                         *)
(* Part VII: validate_plan and simulate_plan_execution of the same server. *)
(* One behaviour fixes a plan of up to MaxPlanSteps steps, whose ids may   *)
(* repeat, and a max_steps, and validates and simulates it.                *)
(***************************************************************************)
EXTENDS Integers, Sequences, FiniteSets, TLC

VARIABLES
    graph,            \* the GraphSpec handed to execute()
    node_registry,    \* GraphExecutor.node_registry: node id -> next_node values its implementation may return
    runtime,          \* the Runtime the executor logs to
    calls,            \* number of execute() calls made so far
    pc,               \* "idle" | "loop" | "done": position of the current execute() call
    call_input,       \* the input_data argument of the current call
    session_state,    \* the session_state argument of the current call
    memory,           \* the call's SharedMemory
    input_data,       \* the local input_data, reassigned at the end of each iteration
    current_node_id,
    steps,
    path,
    ctx,              \* the NodeContext built by the last iteration
    execs,            \* the node executions of the current call, in order
    result,           \* the ExecutionResult returned by the last call
    worker,           \* the WorkerNode: llm, tools, tool_executor, functions, sub_graph_executor
    decisions,        \* the Decisions the worker's Runtime holds, in order
    step,             \* the PlanStep of the last WorkerNode.execute call
    context,          \* the context argument of that call
    resolved_inputs,  \* the local resolved_inputs of that call
    invocations,      \* the callees that call invoked, with their arguments
    step_result,      \* the StepExecutionResult that call returned
    propagated,       \* whether that call let an exception through to its caller
    response_text,    \* the text handed to parse_llm_json_response
    response_json,    \* what parse_llm_json_response returned for it
    config,           \* MCPClient.config: transport, command, url
    _connected,
    _loop,            \* the background event loop (its number), Null for None
    _loop_thread,
    _session,         \* the ClientSession (the number of the loop that made it)
    _stdio_context,
    _read_stream,
    _write_stream,
    _http_client,     \* the httpx.Client (its number), Null for None
    _tools,           \* the cache: tool name -> MCPTool
    loops,            \* the background threads started so far: stage of init_connection, loop running or stopped
    http_clients,     \* the httpx.Clients made so far: "open" | "closed"
    client_pc,        \* where the caller's thread stands in the current public call
    client_call,      \* the current public call
    client_calls,     \* number of public calls made so far
    client_return,    \* how the last public call returned
    sent,             \* the requests sent to the tool server so far, in order
    received,         \* the last responses of the tool server to tools/list and to tools/call
    num_workers,      \* ParallelConfig.num_workers
    fail_fast,        \* ParallelConfig.fail_fast
    tests,            \* the tests handed to run_all: test -> whether the agent passes it
    behaviour,        \* test -> what running its code does
    agent_factory,    \* "creates" | "raises": what a call of the agent factory does
    storage,          \* the runner's TestStorage, if given, with the calls made to it
    runner_pc,        \* where the thread that called run_all stands
    futures,          \* test -> state of its future and the worker thread that took it
    executed,         \* the TestExecutor.execute calls made: test, thread, agent
    completed,        \* the tests whose futures finished, in the order they finished
    waiter,           \* the futures as_completed has yet to yield, in order
    work_queue,       \* ThreadPoolExecutor._work_queue: the tests waiting for a worker
    idle_semaphore,   \* ThreadPoolExecutor._idle_semaphore
    threads,          \* the worker threads of the pool, in the order they were started
    agents,           \* the agents the factory made: agent -> the thread that called it (0: the caller's)
    _thread_local,    \* thread -> the agent _init_worker stored for it
    results,          \* the local results list, in the order the results were collected
    suite,            \* the TestSuiteResult run_all returned
    runs,             \* BuilderQuery.storage: run id -> the stored Run
    analysis,         \* the analyze_failure call made and what it returned
    build_session,    \* the BuildSession of the agent builder server: its nodes and edges
    answer,           \* what the last tool call of the session answered
    builder_calls,    \* number of tool calls made in the session
    plan,             \* the steps of the plan handed to validate_plan and simulate_plan_execution
    plan_max_steps,   \* the max_steps argument of simulate_plan_execution
    validation,       \* what validate_plan answered
    simulation        \* what simulate_plan_execution answered

executor_vars == <<graph, node_registry, runtime, calls, pc, call_input, session_state,
                   memory, input_data, current_node_id, steps, path, ctx, execs, result>>

worker_vars == <<worker, decisions, step, context, resolved_inputs, invocations, step_result,
                 propagated>>

parser_vars == <<response_text, response_json>>

client_vars == <<config, _connected, _loop, _loop_thread, _session, _stdio_context,
                 _read_stream, _write_stream, _http_client, _tools, loops, http_clients,
                 client_pc, client_call, client_calls, client_return, sent, received>>

runner_vars == <<num_workers, fail_fast, tests, behaviour, agent_factory, storage, runner_pc,
                 futures, executed, completed, waiter, work_queue, idle_semaphore, threads,
                 agents, _thread_local, results, suite>>

builder_vars == <<runs, analysis, build_session, answer, builder_calls>>

plan_vars == <<plan, plan_max_steps, validation, simulation>>

vars == <<executor_vars, worker_vars, parser_vars, client_vars, runner_vars, builder_vars,
          plan_vars>>

--------------------------------------------------------------------------
(* Bounds of the model *)

MaxSteps == 3
MaxRetries == 2
MaxCalls == 2

--------------------------------------------------------------------------
(* Values *)

None == "None"
EmptyDict == << >>

\* no error text, no narrative
NoText == << >>

Last(s) == s[Len(s)]

\* dict.update / repeated memory.write: the entries of upd win over those of base
Overlay(base, upd) == upd @@ base

\* the resume key the executor stores in session_state["resume_from"]
ResumeKey(id) == id \o "_resume"

\* the value a node implementation writes under each of its output keys
Values == {1, 2}

\* the input_data payloads of the callers
Inputs == { EmptyDict, [x |-> 1], [x |-> 2, answer |-> 1] }

--------------------------------------------------------------------------
(* NodeSpec, EdgeSpec, GraphSpec *)

Node(id, type, ins, outs, routes) ==
    [id |-> id, node_type |-> type, input_keys |-> ins, output_keys |-> outs, routes |-> routes]

Edge(id, src, tgt, cond, expr, prio, mapping) ==
    [id |-> id, source |-> src, target |-> tgt, condition |-> cond,
     condition_expr |-> expr, priority |-> prio, input_mapping |-> mapping]

Graph(nodes, edges, entry, terminal, pause) ==
    [nodes |-> nodes, edges |-> edges, entry_node |-> entry,
     terminal_nodes |-> terminal, pause_nodes |-> pause]

NodeIds(g) == { g.nodes[i].id : i \in 1..Len(g.nodes) }

HasNode(g, id) == id \in NodeIds(g)

\* GraphSpec.get_node: the first NodeSpec with that id
get_node(g, id) == g.nodes[CHOOSE i \in 1..Len(g.nodes) :
                              /\ g.nodes[i].id = id
                              /\ \A j \in 1..(i-1) : g.nodes[j].id # id]

RECURSIVE SelectSeq2(_, _, _)
SelectSeq2(s, src, i) ==
    IF i > Len(s) THEN << >>
    ELSE IF s[i].source = src THEN <<s[i]>> \o SelectSeq2(s, src, i + 1)
    ELSE SelectSeq2(s, src, i + 1)

\* stable insertion of e into a priority-descending sequence
RECURSIVE InsertByPriority(_, _)
InsertByPriority(e, s) ==
    IF s = << >> THEN <<e>>
    ELSE IF Head(s).priority < e.priority THEN <<e>> \o s
    ELSE <<Head(s)>> \o InsertByPriority(e, Tail(s))

RECURSIVE SortByPriority(_)
SortByPriority(s) ==
    IF s = << >> THEN << >>
    ELSE InsertByPriority(Last(s), SortByPriority(SubSeq(s, 1, Len(s) - 1)))

\* GraphSpec.get_outgoing_edges: the edges leaving id, higher priority first,
\* declaration order among equal priorities
get_outgoing_edges(g, id) == SortByPriority(SelectSeq2(g.edges, id, 1))

\* EdgeSpec.should_traverse; a conditional expression is a pair <<key, value>>
\* read as memory[key] == value (false when the key is absent)
should_traverse(e, source_success, mem) ==
    CASE e.condition = "always" -> TRUE
      [] e.condition = "on_success" -> source_success
      [] e.condition = "on_failure" -> ~source_success
      [] e.condition = "conditional" ->
            /\ e.condition_expr[1] \in DOMAIN mem
            /\ mem[e.condition_expr[1]] = e.condition_expr[2]

\* EdgeSpec.map_inputs: tgt_key -> source_output[src_key], else memory[src_key]
map_inputs(e, source_output, mem) ==
    LET m == e.input_mapping
        usable == { s \in DOMAIN m : s \in DOMAIN source_output \/ s \in DOMAIN mem }
        src(t) == CHOOSE s \in usable : m[s] = t
    IN [ t \in { m[s] : s \in usable } |->
            IF src(t) \in DOMAIN source_output THEN source_output[src(t)] ELSE mem[src(t)] ]

\* GraphSpec.validate: the list of violated graph invariants
validate(g) ==
    (IF HasNode(g, g.entry_node) THEN {} ELSE {"entry"})
    \cup { "terminal" : x \in g.terminal_nodes \ NodeIds(g) }
    \cup { "pause" : x \in g.pause_nodes \ NodeIds(g) }
    \cup { "edge" : i \in { j \in 1..Len(g.edges) :
                             ~ HasNode(g, g.edges[j].source) \/ ~ HasNode(g, g.edges[j].target) } }
    \cup { "route" : i \in { j \in 1..Len(g.nodes) :
                              \/ ~ (g.nodes[j].routes \subseteq NodeIds(g))
                              \/ g.nodes[j].node_type = "router" /\ g.nodes[j].routes = {} } }
    \cup { "dead_end" : i \in { j \in 1..Len(g.nodes) :
                                 /\ g.nodes[j].id \notin g.terminal_nodes \cup g.pause_nodes
                                 /\ SelectSeq2(g.edges, g.nodes[j].id, 1) = << >> } }

\* GraphSpec.get_entry_point
get_entry_point(g, ss) ==
    IF ss # EmptyDict /\ "resume_from" \in DOMAIN ss THEN ss.resume_from ELSE g.entry_node

--------------------------------------------------------------------------
(* Runtime (decision log): the current Run and the calls made on it *)

NoRun == [started |-> 0, ended |-> 0, status |-> "pending", narrative |-> NoText,
          problems |-> << >>]

start_run(rt) ==
    [rt EXCEPT !.started = @ + 1, !.status = "running", !.narrative = NoText,
               !.problems = << >>]

report_problem(rt, severity, description) ==
    [rt EXCEPT !.problems = Append(@, [severity |-> severity, description |-> description])]

end_run(rt, success, narrative) ==
    [rt EXCEPT !.ended = @ + 1,
               !.status = IF success THEN "completed" ELSE "failed",
               !.narrative = narrative]

--------------------------------------------------------------------------
(* ExecutionResult, NodeContext, NodeResult *)

ExecutionResult(success, output, error, steps_executed, p, paused_at, ss) ==
    [success |-> success, output |-> output, error |-> error,
     steps_executed |-> steps_executed, path |-> p, paused_at |-> paused_at,
     session_state |-> ss]

NoResult == ExecutionResult(FALSE, EmptyDict, <<"no call">>, 0, << >>, None, EmptyDict)

\* NodeContext as constructed by _build_context: attempt and max_attempts are not
\* passed and take the values of a new context
NodeContext(node_spec, scoped_read, scoped_write, data, g) ==
    [node_id |-> node_spec.id, read_keys |-> scoped_read, write_keys |-> scoped_write,
     input_data |-> data, attempt |-> 1, max_attempts |-> g.max_retries_per_node]

NoContext == [node_id |-> None, read_keys |-> {}, write_keys |-> {},
              input_data |-> EmptyDict, attempt |-> 1, max_attempts |-> 1]

_build_context(node_spec, data, g) ==
    NodeContext(node_spec, node_spec.input_keys, node_spec.output_keys, data, g)

NodeResult(success, output, next_node) ==
    [success |-> success, output |-> output, next_node |-> next_node]

\* what an implementation may answer: it succeeds and writes v under its output
\* keys, or it fails; a router (or a registered implementation) may name the
\* next node
NodeResults(node_spec, registry) ==
    LET nexts == IF node_spec.id \in DOMAIN registry
                 THEN registry[node_spec.id] \cup {None}
                 ELSE IF node_spec.node_type = "router" THEN node_spec.routes
                 ELSE {None}
    IN { NodeResult(TRUE, [k \in node_spec.output_keys |-> v], n) :
            v \in Values, n \in nexts }
       \cup { NodeResult(FALSE, EmptyDict, None) }

\* the mutant of ImplementationMissing: an unregistered function node falls
\* through to the default LLM node
ImplementationDefaulted(node_spec, registry) == FALSE

\* _get_node_implementation raises for a function node that is not registered
ImplementationMissing(node_spec, registry) ==
    node_spec.id \notin DOMAIN registry /\ node_spec.node_type = "function"

\* node_impl.validate_input: the declared input keys that memory does not hold
validate_input(node_spec, mem) == node_spec.input_keys \ DOMAIN mem

--------------------------------------------------------------------------
(* The executor set-ups explored: [graph, registry] *)

NoExpr == << >>

Linear ==
    [graph |-> Graph(<<Node("A", "function", {"x"}, {"y"}, {}),
                       Node("B", "function", {"y"}, {"z"}, {})>>,
                     <<Edge("e1", "A", "B", "on_success", NoExpr, 0, EmptyDict)>>,
                     "A", {"B"}, {}),
     registry |-> [A |-> {}, B |-> {}]]

FailureEdge ==
    [graph |-> Graph(<<Node("A", "function", {"x"}, {"y"}, {}),
                       Node("B", "function", {"y"}, {}, {}),
                       Node("E", "function", {}, {"z"}, {})>>,
                     <<Edge("e1", "A", "E", "on_failure", NoExpr, 0, EmptyDict),
                       Edge("e2", "A", "B", "on_success", NoExpr, 0, EmptyDict)>>,
                     "A", {"B", "E"}, {}),
     registry |-> [A |-> {}, B |-> {}, E |-> {}]]

PauseGraph ==
    [graph |-> Graph(<<Node("A", "function", {"x"}, {"y"}, {}),
                       Node("P", "function", {"y"}, {"question"}, {}),
                       Node("B", "function", {"answer"}, {"z"}, {})>>,
                     <<Edge("e1", "A", "P", "on_success", NoExpr, 0, EmptyDict),
                       Edge("e2", "P", "B", "always", NoExpr, 0, [question |-> "asked"])>>,
                     "A", {"B"}, {"P"}),
     registry |-> [A |-> {}, P |-> {}, B |-> {}]]

PauseResumeGraph ==
    [graph |-> Graph(<<Node("P", "function", {"x"}, {"question"}, {}),
                       Node("P_resume", "function", {"answer"}, {"z"}, {}),
                       Node("B", "llm_generate", {"z"}, {}, {})>>,
                     <<Edge("e1", "P_resume", "B", "always", NoExpr, 0, EmptyDict)>>,
                     "P", {"B"}, {"P"}),
     registry |-> [P |-> {}, P_resume |-> {}]]

Cyclic ==
    [graph |-> Graph(<<Node("A", "llm_generate", {"x"}, {"y"}, {}),
                       Node("B", "llm_generate", {"y"}, {"x"}, {})>>,
                     <<Edge("e1", "A", "B", "always", NoExpr, 0, EmptyDict),
                       Edge("e2", "B", "A", "always", NoExpr, 0, EmptyDict)>>,
                     "A", {}, {}),
     registry |-> EmptyDict]

InvalidGraph ==
    [graph |-> Graph(<<Node("A", "function", {"x"}, {"y"}, {})>>,
                     <<Edge("e1", "A", "Z", "always", NoExpr, 0, EmptyDict)>>,
                     "Z", {}, {}),
     registry |-> [A |-> {}]]

RouterGraph ==
    [graph |-> Graph(<<Node("R", "router", {"x"}, {}, {"B", "E"}),
                       Node("B", "function", {}, {"y"}, {}),
                       Node("E", "function", {}, {"z"}, {}),
                       Node("C", "function", {}, {}, {})>>,
                     <<Edge("e1", "R", "C", "on_failure", NoExpr, 0, EmptyDict),
                       Edge("e2", "C", "B", "always", NoExpr, 0, EmptyDict)>>,
                     "R", {"B", "E"}, {}),
     registry |-> [B |-> {}, C |-> {"ghost"}]]

PriorityGraph ==
    [graph |-> Graph(<<Node("A", "llm_tool_use", {"x"}, {"y"}, {}),
                       Node("B", "llm_generate", {"x2"}, {}, {}),
                       Node("E", "llm_generate", {}, {}, {})>>,
                     <<Edge("e1", "A", "E", "always", NoExpr, 1, EmptyDict),
                       Edge("e2", "A", "B", "conditional", <<"y", 2>>, 2, [y |-> "x2"])>>,
                     "A", {"B", "E"}, {}),
     registry |-> EmptyDict]

Setups == { Linear, FailureEdge, PauseGraph, PauseResumeGraph, Cyclic, InvalidGraph,
            RouterGraph, PriorityGraph }

--------------------------------------------------------------------------
(* GraphExecutor.execute *)

\* the mutant of LoopGuard: an off-by-one loop condition
LoopGuardInclusive(s, g) == s <= g.max_steps

\* the while condition of the main loop
LoopGuard(s, g) == s < g.max_steps

\* the early return on validation errors
InvalidGraphResult(errors) ==
    ExecutionResult(FALSE, EmptyDict, <<"Invalid graph", errors>>, 0, << >>, None, EmptyDict)

\* the mutant of InitMemory: the session memory is written after the inputs
InitMemorySessionLast(ss, data) ==
    LET restored == IF ss # EmptyDict /\ "memory" \in DOMAIN ss
                    THEN Overlay(EmptyDict, ss.memory) ELSE EmptyDict
    IN Overlay(data, restored)

\* memory = SharedMemory(); restore session_state["memory"]; write input_data
InitMemory(ss, data) ==
    LET restored == IF ss # EmptyDict /\ "memory" \in DOMAIN ss
                    THEN Overlay(EmptyDict, ss.memory) ELSE EmptyDict
    IN Overlay(restored, data)

\* the mutant of PauseState: the memory snapshot is not stored in the token
PauseStateNoMemory(node_id, saved_memory) ==
    [paused_at |-> node_id, resume_from |-> ResumeKey(node_id),
     memory |-> EmptyDict, next_node |-> None]

\* session_state_out of a pause
PauseState(node_id, saved_memory) ==
    [paused_at |-> node_id, resume_from |-> ResumeKey(node_id),
     memory |-> saved_memory, next_node |-> None]

\* the ExecutionResult of a pause
PauseResult(node_id, saved_memory, s, p) ==
    ExecutionResult(TRUE, saved_memory, NoText, s, p, node_id, PauseState(node_id, saved_memory))

\* the ExecutionResult after the loop
FinalResult(output, s, p) ==
    ExecutionResult(TRUE, output, NoText, s, p, None, EmptyDict)

\* the ExecutionResult of the exception handler
FailedResult(error, s, p) ==
    ExecutionResult(FALSE, EmptyDict, error, s, p, None, EmptyDict)

\* _follow_edges: the first outgoing edge that should be traversed, with its
\* mapped inputs written to memory; target None when no edge matches
RECURSIVE FirstEdge(_, _, _, _)
FirstEdge(edges, i, r, mem) ==
    IF i > Len(edges) THEN [target |-> None, memory |-> mem]
    ELSE IF should_traverse(edges[i], r.success, mem)
         THEN [target |-> edges[i].target,
               memory |-> Overlay(mem, map_inputs(edges[i], r.output, mem))]
         ELSE FirstEdge(edges, i + 1, r, mem)

\* the mutant of _follow_edges: the edges are taken as declared in graph.edges
_follow_edges_declared(g, node_id, r, mem) == FirstEdge(SelectSeq2(g.edges, node_id, 1), 1, r, mem)

_follow_edges(g, node_id, r, mem) == FirstEdge(get_outgoing_edges(g, node_id), 1, r, mem)

\* the session states a caller passes: none, or what the previous call returned
\* (as returned, or only its memory)
Sessions ==
    {EmptyDict} \cup
    (IF pc = "done" /\ result.session_state # EmptyDict
     THEN {result.session_state, [memory |-> result.session_state.memory]}
     ELSE {})

\* no WorkerNode has been built and nothing has been parsed
WorkerIdle ==
    /\ worker = EmptyDict
    /\ decisions = << >>
    /\ step = EmptyDict
    /\ context = EmptyDict
    /\ resolved_inputs = EmptyDict
    /\ invocations = << >>
    /\ step_result = EmptyDict
    /\ propagated = FALSE

ParserIdle == response_text = "" /\ response_json = EmptyDict

\* None, for a field that otherwise holds the number of a loop or a client
Null == 0

\* no MCPClient has been built
ClientIdle ==
    /\ config = EmptyDict
    /\ _connected = FALSE
    /\ _loop = Null
    /\ _loop_thread = Null
    /\ _session = Null
    /\ _stdio_context = Null
    /\ _read_stream = Null
    /\ _write_stream = Null
    /\ _http_client = Null
    /\ _tools = EmptyDict
    /\ loops = << >>
    /\ http_clients = << >>
    /\ client_pc = "idle"
    /\ client_call = EmptyDict
    /\ client_calls = 0
    /\ client_return = EmptyDict
    /\ sent = << >>
    /\ received = EmptyDict

\* no ParallelTestRunner has been built
RunnerIdle ==
    /\ num_workers = 0
    /\ fail_fast = FALSE
    /\ tests = << >>
    /\ behaviour = << >>
    /\ agent_factory = "creates"
    /\ storage = [given |-> FALSE, calls |-> << >>]
    /\ runner_pc = "idle"
    /\ futures = << >>
    /\ executed = {}
    /\ completed = << >>
    /\ waiter = << >>
    /\ work_queue = << >>
    /\ idle_semaphore = 0
    /\ threads = << >>
    /\ agents = << >>
    /\ _thread_local = << >>
    /\ results = << >>
    /\ suite = EmptyDict

\* no plan was handed to the agent builder server
PlanIdle ==
    /\ plan = << >>
    /\ plan_max_steps = 0
    /\ validation = << >>
    /\ simulation = << >>

\* no BuilderQuery has been built and no build session was created
BuilderIdle ==
    /\ runs = << >>
    /\ analysis = << >>
    /\ build_session = << >>
    /\ answer = << >>
    /\ builder_calls = 0
    /\ PlanIdle

Init ==
    /\ \E su \in Setups, ms \in 1..MaxSteps, mr \in 1..MaxRetries :
          /\ graph = su.graph @@ [max_steps |-> ms, max_retries_per_node |-> mr]
          /\ node_registry = su.registry
    /\ runtime = NoRun
    /\ calls = 0
    /\ pc = "idle"
    /\ call_input = EmptyDict
    /\ session_state = EmptyDict
    /\ memory = EmptyDict
    /\ input_data = EmptyDict
    /\ current_node_id = None
    /\ steps = 0
    /\ path = << >>
    /\ ctx = NoContext
    /\ execs = << >>
    /\ result = NoResult
    /\ WorkerIdle
    /\ ParserIdle
    /\ ClientIdle
    /\ RunnerIdle
    /\ BuilderIdle

\* the mutant of RefuseInvalid: the Run is opened before the graph is validated
RefuseInvalidAfterStart ==
    /\ result' = InvalidGraphResult(validate(graph))
    /\ pc' = "done"
    /\ runtime' = start_run(runtime)
    /\ UNCHANGED <<memory, input_data, current_node_id, steps, path, ctx, execs>>

\* lines 112-118: an invalid graph is refused, nothing else is touched
RefuseInvalid ==
    /\ result' = InvalidGraphResult(validate(graph))
    /\ pc' = "done"
    /\ UNCHANGED <<runtime, memory, input_data, current_node_id, steps, path, ctx, execs>>

\* execute(), up to the first evaluation of the loop condition
Call ==
    /\ pc \in {"idle", "done"}
    /\ calls < MaxCalls
    /\ calls' = calls + 1
    /\ \E data \in Inputs, ss \in Sessions :
          /\ call_input' = data
          /\ session_state' = ss
          /\ IF validate(graph) # {}
             THEN RefuseInvalid
             ELSE /\ memory' = InitMemory(ss, data)
                  /\ input_data' = data
                  /\ path' = << >>
                  /\ current_node_id' = get_entry_point(graph, ss)
                  /\ steps' = 0
                  /\ runtime' = start_run(runtime)
                  /\ ctx' = NoContext
                  /\ execs' = << >>
                  /\ pc' = "loop"
                  /\ UNCHANGED result
    /\ UNCHANGED <<graph, node_registry>>
    /\ UNCHANGED <<worker_vars, parser_vars, client_vars, runner_vars, builder_vars, plan_vars>>

\* the mutant of Finish: a Run with a reported Problem is closed as failed
FinishFailingOnProblems(rt, mem, s, p) ==
    /\ runtime' = end_run(rt, rt.problems = << >>, <<"Executed", s, p>>)
    /\ result' = IF rt.problems = << >> THEN FinalResult(mem, s, p)
                  ELSE FailedResult(<<"Problems reported">>, s, p)
    /\ pc' = "done"

\* lines 307-329: the loop was left by break or by its condition
Finish(rt, mem, s, p) ==
    /\ runtime' = end_run(rt, TRUE, <<"Executed", s, p>>)
    /\ result' = FinalResult(mem, s, p)
    /\ pc' = "done"

\* the mutant of Fatal: the handler returns without closing the Run
FatalRunLeftOpen(rt, error, s, p) ==
    /\ runtime' = report_problem(rt, "critical", error)
    /\ result' = FailedResult(error, s, p)
    /\ pc' = "done"

\* lines 331-345: the exception handler
Fatal(rt, error, s, p) ==
    /\ runtime' = end_run(report_problem(rt, "critical", error), FALSE, <<"Failed", s>>)
    /\ result' = FailedResult(error, s, p)
    /\ pc' = "done"

\* one iteration of the main loop
LoopStep ==
    /\ pc = "loop"
    /\ LoopGuard(steps, graph)
    /\ steps' = steps + 1
    /\ UNCHANGED <<graph, node_registry, calls, call_input, session_state>>
    /\ UNCHANGED <<worker_vars, parser_vars, client_vars, runner_vars, builder_vars, plan_vars>>
    /\ IF ~ HasNode(graph, current_node_id)
       THEN /\ Fatal(runtime, <<"Node not found", current_node_id>>, steps + 1, path)
            /\ UNCHANGED <<memory, input_data, current_node_id, path, ctx, execs>>
       ELSE
         LET node_spec == get_node(graph, current_node_id)
             path1 == Append(path, current_node_id)
             ctx1 == _build_context(node_spec, input_data, graph)
         IN
         /\ path' = path1
         /\ IF ImplementationMissing(node_spec, node_registry)
            THEN /\ Fatal(runtime, <<"Function node not registered", node_spec.id>>,
                          steps + 1, path1)
                 /\ ctx' = ctx1
                 /\ UNCHANGED <<memory, input_data, current_node_id, execs>>
            ELSE
              \E r \in NodeResults(node_spec, node_registry) :
                LET rt1 == IF validate_input(node_spec, memory) # {}
                           THEN report_problem(runtime, "warning",
                                               <<"Validation errors", node_spec.id>>)
                           ELSE runtime
                    mem1 == IF r.success THEN Overlay(memory, r.output) ELSE memory
                    retry == ~ r.success /\ ctx1.attempt < ctx1.max_attempts
                    rt2 == IF ~ r.success
                           THEN report_problem(rt1, "critical", <<"Node failed", node_spec.id>>)
                           ELSE rt1
                    followed == _follow_edges(graph, current_node_id, r, mem1)
                IN
                /\ execs' = Append(execs, [node |-> node_spec.id, success |-> r.success,
                                            retried |-> retry,
                                            attempt |-> ctx1.attempt,
                                            next_node |-> r.next_node,
                                            output |-> r.output])
                /\ IF retry
                   THEN /\ ctx' = [ctx1 EXCEPT !.attempt = @ + 1]
                        /\ memory' = mem1
                        /\ runtime' = rt1
                        /\ UNCHANGED <<pc, input_data, current_node_id, result>>
                   ELSE
                     /\ ctx' = ctx1
                     /\ IF node_spec.id \in graph.pause_nodes
                        THEN /\ runtime' = end_run(rt2, TRUE, <<"Paused at", node_spec.id, steps + 1>>)
                             /\ result' = PauseResult(node_spec.id, mem1, steps + 1, path1)
                             /\ pc' = "done"
                             /\ memory' = mem1
                             /\ UNCHANGED <<input_data, current_node_id>>
                        ELSE IF node_spec.id \in graph.terminal_nodes
                        THEN /\ Finish(rt2, mem1, steps + 1, path1)
                             /\ memory' = mem1
                             /\ UNCHANGED <<input_data, current_node_id>>
                        ELSE IF r.next_node # None
                        THEN /\ current_node_id' = r.next_node
                             /\ input_data' = r.output
                             /\ memory' = mem1
                             /\ runtime' = rt2
                             /\ UNCHANGED <<pc, result>>
                        ELSE IF followed.target = None
                        THEN /\ Finish(rt2, followed.memory, steps + 1, path1)
                             /\ memory' = followed.memory
                             /\ UNCHANGED <<input_data, current_node_id>>
                        ELSE /\ current_node_id' = followed.target
                             /\ input_data' = r.output
                             /\ memory' = followed.memory
                             /\ runtime' = rt2
                             /\ UNCHANGED <<pc, result>>

\* the loop condition fails: max_steps iterations were made
LoopExit ==
    /\ pc = "loop"
    /\ ~ LoopGuard(steps, graph)
    /\ Finish(runtime, memory, steps, path)
    /\ UNCHANGED <<graph, node_registry, calls, call_input, session_state, memory,
                   input_data, current_node_id, steps, path, ctx, execs>>
    /\ UNCHANGED <<worker_vars, parser_vars, client_vars, runner_vars, builder_vars, plan_vars>>

Next == Call \/ LoopStep \/ LoopExit

Spec == Init /\ [][Next]_vars

\* every started call runs on: each node execution returns
FairSpec == Spec /\ WF_vars(LoopStep) /\ WF_vars(LoopExit)

--------------------------------------------------------------------------
(* Properties of GraphExecutor.execute *)

Setup(su) == graph.nodes = su.graph.nodes /\ graph.edges = su.graph.edges

Executed == { execs[i].node : i \in 1..Len(execs) }

ExecsOf(n) == { i \in 1..Len(execs) : execs[i].node = n }

CriticalFor(n) ==
    \E i \in 1..Len(runtime.problems) :
        runtime.problems[i] = [severity |-> "critical", description |-> <<"Node failed", n>>]

Occurrences(p, n) == Cardinality({ i \in 1..Len(p) : p[i] = n })

\* C1: a retried execution is followed by an execution of the same node with the
\* attempt counter one higher, and no node is executed more than
\* max_retries_per_node times in a row by retrying, whatever max_steps is.
C1_RetryBudget ==
    /\ \A i \in 1..(Len(execs) - 1) :
          execs[i].retried =>
             /\ execs[i + 1].node = execs[i].node
             /\ execs[i + 1].attempt = execs[i].attempt + 1
    /\ \A i \in 1..Len(execs) : \A j \in i..Len(execs) :
          (\A k \in i..j : execs[k].retried) => (j - i + 1) < graph.max_retries_per_node

\* C2: when a call has returned and a node failed on every one of its attempts
\* (max_retries_per_node of them), a critical Problem was reported for it; in
\* scenario S3 (A always fails, on_failure edge A->E, budget for A's attempts and
\* E) the path is [A, E] and the run is closed completed.
C2_DefinitiveFailure ==
    pc = "done" =>
       /\ \A n \in Executed :
             (/\ \A i \in ExecsOf(n) : ~ execs[i].success
              /\ Cardinality(ExecsOf(n)) >= graph.max_retries_per_node)
             => CriticalFor(n)
       /\ (/\ Setup(FailureEdge)
           /\ graph.max_steps > graph.max_retries_per_node
           /\ \A i \in ExecsOf("A") : ~ execs[i].success
           /\ \A i \in ExecsOf("E") : execs[i].success)
          => /\ result.path = <<"A", "E">>
             /\ runtime.status = "completed"
             /\ CriticalFor("A")

\* C3: when a call has returned and a node was executed exactly twice, failing
\* the first time and succeeding on the retry, the run succeeded, the node id is
\* in the returned path exactly once and no critical Problem names the node.
C3_TransientFailure ==
    pc = "done" =>
       \A n \in Executed :
          (\E i \in 1..(Len(execs) - 1) :
              /\ ExecsOf(n) = {i, i + 1}
              /\ execs[i].retried
              /\ execs[i + 1].success)
          => /\ result.success
             /\ Occurrences(result.path, n) = 1
             /\ ~ CriticalFor(n)

StepsWithinBudget ==
    /\ steps <= graph.max_steps
    /\ Len(execs) <= graph.max_steps
    /\ pc = "done" => result.steps_executed <= graph.max_steps

\* C4: in every state the step counter and the number of node executions are at
\* most max_steps, every returned steps_executed is at most max_steps, and every
\* call that entered the loop returns.
C4_StepBudget ==
    /\ [] StepsWithinBudget
    /\ (pc = "loop") ~> (pc = "done")

\* C4 witness: a cyclic graph without terminal node used up a budget of at
\* least two steps and the call returned.
C4_Witness ==
    /\ pc = "done"
    /\ Setup(Cyclic)
    /\ graph.max_steps >= 2
    /\ result.steps_executed = graph.max_steps
    /\ Len(execs) = graph.max_steps

\* C5: every successful result ends its path in a terminal node or is a pause.
C5_PathConsistency ==
    (pc = "done" /\ result.success) =>
       \/ result.paused_at # None
       \/ result.path # << >> /\ Last(result.path) \in graph.terminal_nodes

SessionMemory == IF session_state # EmptyDict /\ "memory" \in DOMAIN session_state
                 THEN session_state.memory ELSE EmptyDict

Range(f) == { f[k] : k \in DOMAIN f }

\* the keys the call can have stored before it left node n: the initial memory,
\* the outputs of the executed nodes and the mapped inputs of edges leaving
\* other nodes than n
KeysBeforeLeaving(n) ==
    DOMAIN call_input \cup DOMAIN SessionMemory
    \cup UNION { get_node(graph, m).output_keys : m \in Executed }
    \cup UNION { Range(graph.edges[i].input_mapping) :
                    i \in { j \in 1..Len(graph.edges) : graph.edges[j].source # n } }

\* C6: once a pause node has been executed and is not retried, the call has
\* returned: success, paused_at the node, output and session_state.memory equal
\* to the memory snapshot (no input mapping of an edge leaving the node applied),
\* session_state.paused_at the node and next_node null, the run closed exactly
\* once as completed with the pause narrative, and the node is the last executed.
C6_PauseReturn ==
    (/\ pc # "idle"
     /\ execs # << >>
     /\ Last(execs).node \in graph.pause_nodes
     /\ ~ Last(execs).retried)
    => /\ pc = "done"
       /\ result.success
       /\ result.error = NoText
       /\ result.paused_at = Last(execs).node
       /\ result.output = memory
       /\ DOMAIN result.output \subseteq KeysBeforeLeaving(Last(execs).node)
       /\ Last(execs).success =>
             get_node(graph, Last(execs).node).output_keys \subseteq DOMAIN result.output
       /\ result.session_state.memory = memory
       /\ result.session_state.paused_at = Last(execs).node
       /\ result.session_state.next_node = None
       /\ result.path = path
       /\ Last(path) = Last(execs).node
       /\ result.steps_executed = Len(execs)
       /\ runtime.ended = runtime.started
       /\ runtime.status = "completed"
       /\ runtime.narrative = <<"Paused at", Last(execs).node, steps>>

\* C6 witness: S4's pause node P, which has an outgoing edge with an input
\* mapping, was executed after A and the call returned paused with the memory.
C6_Witness ==
    /\ pc = "done"
    /\ Setup(PauseGraph)
    /\ result.paused_at = "P"
    /\ Len(execs) >= 2
    /\ Last(execs).success
    /\ {"x", "y", "question"} \subseteq DOMAIN result.session_state.memory

ResumedWithToken == session_state # EmptyDict /\ "resume_from" \in DOMAIN session_state

\* C7: a paused result's session_state.resume_from is a node id of the graph; a
\* call given a session_state with resume_from starts at that node and does not
\* fail with 'Node not found'; a call without session_state starts at entry_node.
C7_ResumeRoundTrip ==
    /\ (pc = "done" /\ result.paused_at # None)
          => HasNode(graph, result.session_state.resume_from)
    /\ (pc = "done" /\ validate(graph) = {} /\ ResumedWithToken)
          => /\ result.path # << >>
             /\ result.path[1] = session_state.resume_from
             /\ result.error # <<"Node not found", session_state.resume_from>>
    /\ (pc # "idle" /\ session_state = EmptyDict /\ path # << >>)
          => path[1] = graph.entry_node

\* C8: when the loop is entered the memory holds exactly the keys of the session
\* memory and of input_data, with the input_data value for a key of input_data
\* and the session value otherwise; a resumed call that completes returns an
\* output with every key of the session memory and of input_data.
C8_ResumeMemory ==
    /\ (pc = "loop" /\ steps = 0)
          => /\ DOMAIN memory = DOMAIN call_input \cup DOMAIN SessionMemory
             /\ \A k \in DOMAIN call_input : memory[k] = call_input[k]
             /\ \A k \in DOMAIN SessionMemory \ DOMAIN call_input :
                   memory[k] = SessionMemory[k]
    /\ (pc = "done" /\ result.success /\ result.paused_at = None)
          => (DOMAIN call_input \cup DOMAIN SessionMemory) \subseteq DOMAIN result.output

\* C8 witness: S4 resumed: the token's memory holds x = 1, the new inputs are
\* x = 2 and answer, the resumed call completed and its output has x = 2, answer
\* and the question stored before the pause.
C8_Witness ==
    /\ pc = "done"
    /\ calls = 2
    /\ ResumedWithToken
    /\ result.success
    /\ result.paused_at = None
    /\ "x" \in DOMAIN session_state.memory
    /\ session_state.memory["x"] = 1
    /\ call_input = [x |-> 2, answer |-> 1]
    /\ result.output["x"] = 2
    /\ {"answer", "question"} \subseteq DOMAIN result.output

\* C9: the context of every node execution gives read access to the node's
\* input_keys only and write access to its output_keys only, and carries no data
\* under a key outside input_keys.
C9_PermissionHonouring ==
    ctx.node_id # None =>
       /\ ctx.read_keys = get_node(graph, ctx.node_id).input_keys
       /\ ctx.write_keys = get_node(graph, ctx.node_id).output_keys
       /\ DOMAIN ctx.input_data \subseteq get_node(graph, ctx.node_id).input_keys

\* C10: a call on a graph with validation errors returns success=false with the
\* error, steps_executed 0 and an empty path; no Run is opened, no Problem is
\* reported and no node is executed.
C10_ValidationFirst ==
    (pc # "idle" /\ validate(graph) # {})
    => /\ pc = "done"
       /\ ~ result.success
       /\ result.error = <<"Invalid graph", validate(graph)>>
       /\ result.steps_executed = 0
       /\ result.path = << >>
       /\ result.paused_at = None
       /\ runtime = NoRun
       /\ execs = << >>
       /\ path = << >>

\* C10 witness: the graph whose entry node and edge target do not exist was
\* submitted twice.
C10_Witness ==
    /\ pc = "done"
    /\ calls = 2
    /\ Setup(InvalidGraph)
    /\ {"entry", "edge"} \subseteq validate(graph)

RunOpen == runtime.status = "running" /\ runtime.ended + 1 = runtime.started

RunClosed == runtime.status \in {"completed", "failed"} /\ runtime.ended = runtime.started

RunLifecycle ==
    /\ runtime.ended <= runtime.started
    /\ runtime.started = (IF validate(graph) = {} THEN calls ELSE 0)
    /\ pc = "loop" => RunOpen
    /\ (pc = "done" /\ validate(graph) = {}) => RunClosed

\* C11: every call that passes validation opens exactly one Run and closes it
\* exactly once on every exit path: while the call is in its loop the Run is
\* open (one more start_run than end_run), once it has returned the numbers of
\* start_run and end_run calls both equal the number of calls; end_run never
\* precedes start_run, and a node is executed only while the Run is open.
C11_RunLifecycle ==
    /\ [] RunLifecycle
    /\ [][ (Len(execs') > Len(execs) \/ Len(path') > Len(path)) => RunOpen ]_vars
    /\ [][ runtime.ended' # runtime.ended =>
              (runtime.ended' = runtime.ended + 1 /\ RunOpen /\ pc' = "done") ]_vars

\* C11 witness: a second call ended in the exception handler after the first
\* one had returned, each with its own start_run and end_run.
C11_Witness ==
    /\ pc = "done"
    /\ calls = 2
    /\ ~ result.success
    /\ runtime.status = "failed"
    /\ runtime.started = 2
    /\ runtime.ended = 2

FatalOutcome(error, p) ==
    /\ pc' = "done"
    /\ result' = [success |-> FALSE, output |-> EmptyDict, error |-> error,
                  steps_executed |-> steps + 1, path |-> p, paused_at |-> None,
                  session_state |-> EmptyDict]
    /\ runtime'.status = "failed"
    /\ runtime'.ended = runtime.ended + 1
    /\ Len(runtime'.problems) = Len(runtime.problems) + 1
    /\ Last(runtime'.problems) = [severity |-> "critical", description |-> error]
    /\ execs' = execs

\* C12: an iteration that starts at a node id that is not in the graph, or at an
\* unregistered node of type function, reports one critical Problem carrying the
\* error, closes the Run as failed and returns success=false with that error;
\* a missing node id is not appended to the path and no node is executed.
C12_FatalErrors ==
    [][ (pc = "loop" /\ steps < graph.max_steps) =>
           /\ ~ HasNode(graph, current_node_id) =>
                 FatalOutcome(<<"Node not found", current_node_id>>, path)
           /\ (/\ HasNode(graph, current_node_id)
               /\ get_node(graph, current_node_id).node_type = "function"
               /\ current_node_id \notin DOMAIN node_registry) =>
                 FatalOutcome(<<"Function node not registered", current_node_id>>,
                              Append(path, current_node_id)) ]_vars

\* C12 witness: a registered implementation named the unknown node 'ghost' as
\* next node and the call failed on it after two executed nodes.
C12_Witness ==
    /\ pc = "done"
    /\ result.error = <<"Node not found", "ghost">>
    /\ current_node_id = "ghost"
    /\ Len(execs) = 2
    /\ result.path = <<"R", "C">>

\* the edges leaving n that should be traversed after result e, by index in graph.edges
Matching(n, e, mem) ==
    { i \in 1..Len(graph.edges) :
         graph.edges[i].source = n /\ should_traverse(graph.edges[i], e.success, mem) }

Precedes(i, j) ==
    \/ graph.edges[i].priority > graph.edges[j].priority
    \/ graph.edges[i].priority = graph.edges[j].priority /\ i < j

\* C13: after a node that is neither retried nor a pause or terminal node, an
\* explicit next_node of the result becomes the current node and memory holds
\* the node's outputs only (no edge mapping); otherwise the matching edge that
\* precedes all other matching edges (higher priority, then declaration order)
\* gives the current node and only its input_mapping is written; with no
\* matching edge the call returns.
C13_NextNodeSelection ==
    [][ (/\ Len(execs') = Len(execs) + 1
         /\ ~ Last(execs').retried
         /\ Last(execs').node \notin graph.pause_nodes \cup graph.terminal_nodes)
        => LET e == Last(execs')
               mem1 == Overlay(memory, e.output)
               m == Matching(e.node, e, mem1)
           IN IF e.next_node # None
              THEN /\ current_node_id' = e.next_node
                   /\ memory' = mem1
                   /\ pc' = "loop"
              ELSE IF m = {}
              THEN /\ pc' = "done"
                   /\ memory' = mem1
                   /\ result'.output = mem1
                   /\ current_node_id' = current_node_id
              ELSE \E w \in m :
                      /\ \A j \in m \ {w} : Precedes(w, j)
                      /\ current_node_id' = graph.edges[w].target
                      /\ memory' = Overlay(mem1, map_inputs(graph.edges[w], e.output, mem1))
                      /\ pc' = "loop" ]_vars

\* C13 witness: in the priority graph both edges of A matched (A wrote y = 2);
\* the conditional edge of priority 2, declared second, was taken and its
\* mapping y -> x2 written.
C13_Witness ==
    /\ pc = "loop"
    /\ Setup(PriorityGraph)
    /\ current_node_id = "B"
    /\ Len(execs) = 1
    /\ "x2" \in DOMAIN memory
    /\ memory["x2"] = 2

--------------------------------------------------------------------------
(* Python values and text, as used by worker_node.py *)

\* A Python value is a record [t, v]: the type tag and the payload.  A dict is
\* a function from key strings, a list is a sequence of values.
PyNone == [t |-> "none", v |-> 0]

PyStr(s) == [t |-> "str", v |-> s]

PyInt(n) == [t |-> "int", v |-> n]

PyFloat(literal) == [t |-> "float", v |-> literal]

PyBool(b) == [t |-> "bool", v |-> b]

PyDict(f) == [t |-> "dict", v |-> f]

PyList(q) == [t |-> "list", v |-> q]

\* isinstance(value, str) / isinstance(value, dict)
IsStr(value) == value.t = "str"

IsDict(value) == value.t = "dict"

\* d.get(key, default) on the payload of a dict
Get(d, key, default) == IF key \in DOMAIN d THEN d[key] ELSE default

\* {**a, **b} and a.update(b): the keys of b win
Merge(a, b) == b @@ a

\* In a text the backquote is written @ (a TLA+ string cannot hold one); no
\* other character of the texts modelled is an @.
Backquote == "@"

Fence == Backquote \o Backquote \o Backquote

\* s[i] as a one-character string, "" past the end
At(s, i) == IF i >= 1 /\ i <= Len(s) THEN SubSeq(s, i, i) ELSE ""

\* s[i-1:] in Python terms: the text from position i on
From(s, i) == IF i > Len(s) THEN "" ELSE SubSeq(s, i, Len(s))

\* s.startswith(prefix, i-1)
StartsAt(s, i, prefix) ==
    i >= 1 /\ i + Len(prefix) - 1 <= Len(s) /\ SubSeq(s, i, i + Len(prefix) - 1) = prefix

startswith(s, prefix) == StartsAt(s, 1, prefix)

\* the whitespace of str.strip, of \s and of the JSON decoder that can occur in
\* the texts modelled
Whitespace == {" ", "\n", "\t", "\r"}

RECURSIVE SkipSpace(_, _)
\* the position of the first non-whitespace character at or after i
SkipSpace(s, i) == IF At(s, i) \in Whitespace THEN SkipSpace(s, i + 1) ELSE i

RECURSIVE SkipSpaceBack(_, _, _)
\* the smallest e >= lo such that s[e..i-1] is all whitespace
SkipSpaceBack(s, i, lo) ==
    IF i > lo /\ At(s, i - 1) \in Whitespace THEN SkipSpaceBack(s, i - 1, lo) ELSE i

\* str.strip()
strip(s) ==
    LET a == SkipSpace(s, 1)
    IN IF a > Len(s) THEN "" ELSE SubSeq(s, a, SkipSpaceBack(s, Len(s) + 1, a) - 1)

RECURSIVE find(_, _, _)
\* the first position >= i where sub occurs in s, 0 if none
find(s, sub, i) ==
    IF i + Len(sub) - 1 > Len(s) THEN 0
    ELSE IF StartsAt(s, i, sub) THEN i
    ELSE find(s, sub, i + 1)

RECURSIVE rfind(_, _, _)
\* the last position <= i where the one-character sub occurs in s, 0 if none
rfind(s, sub, i) ==
    IF i < 1 THEN 0
    ELSE IF At(s, i) = sub THEN i
    ELSE rfind(s, sub, i - 1)

--------------------------------------------------------------------------
(* json.loads, for texts without backslash escapes *)

Digits == {"0", "1", "2", "3", "4", "5", "6", "7", "8", "9"}

DigitValue(c) ==
    CASE c = "0" -> 0 [] c = "1" -> 1 [] c = "2" -> 2 [] c = "3" -> 3 [] c = "4" -> 4
      [] c = "5" -> 5 [] c = "6" -> 6 [] c = "7" -> 7 [] c = "8" -> 8 [] c = "9" -> 9

RECURSIVE DigitsEnd(_, _)
\* the position after the run of digits starting at i
DigitsEnd(s, i) == IF At(s, i) \in Digits THEN DigitsEnd(s, i + 1) ELSE i

RECURSIVE IntValue(_, _, _)
\* the number written by the digits s[i..j]
IntValue(s, i, j) == IF j < i THEN 0 ELSE 10 * IntValue(s, i, j - 1) + DigitValue(At(s, j))

\* a decoding step: the value read and the position after it, or a failure
Decoded(val, end) == [ok |-> TRUE, val |-> val, end |-> end]

DecodeError == [ok |-> FALSE, val |-> PyNone, end |-> 0]

RECURSIVE StringEnd(_, _)
\* the position of the quote closing a string whose content starts at i; 0 if
\* it is unterminated or holds a control character or a backslash
StringEnd(s, i) ==
    IF i > Len(s) THEN 0
    ELSE IF At(s, i) = "\"" THEN i
    ELSE IF At(s, i) \in {"\n", "\t", "\r", "\\"} THEN 0
    ELSE StringEnd(s, i + 1)

\* the position after the optional fraction that follows the integer ending before e
FractionEnd(s, e) ==
    IF At(s, e) = "." /\ At(s, e + 1) \in Digits THEN DigitsEnd(s, e + 1) ELSE e

\* the position after the optional exponent that follows the number ending before f
ExponentEnd(s, f) ==
    IF At(s, f) \in {"e", "E"} /\ At(s, f + 1) \in {"-", "+"} /\ At(s, f + 2) \in Digits
    THEN DigitsEnd(s, f + 2)
    ELSE IF At(s, f) \in {"e", "E"} /\ At(s, f + 1) \in Digits
    THEN DigitsEnd(s, f + 1)
    ELSE f

\* NUMBER_RE: -?(0|[1-9]\d*)(\.\d+)?([eE][-+]?\d+)?
scan_number(s, i) ==
    LET number(d, e, x) ==
            IF e = d THEN DecodeError
            ELSE IF x > e THEN Decoded(PyFloat(SubSeq(s, i, x - 1)), x)
            ELSE Decoded(PyInt(IF d > i THEN 0 - IntValue(s, d, e - 1)
                               ELSE IntValue(s, d, e - 1)), e)
        integer(d, e) == number(d, e, ExponentEnd(s, FractionEnd(s, e)))
        digits(d) == integer(d, IF At(s, d) = "0" THEN d + 1 ELSE DigitsEnd(s, d))
    IN digits(IF At(s, i) = "-" THEN i + 1 ELSE i)

RECURSIVE scan_once(_, _)
RECURSIVE JSONObject(_, _, _)
RECURSIVE JSONArray(_, _, _)

\* the pairs of an object from the quote of a key at i on; pairs read so far
JSONObject(s, i, pairs) ==
    LET member(key, r, n) ==
            IF ~ r.ok THEN DecodeError
            ELSE IF At(s, n) = "}" THEN Decoded(PyDict((key :> r.val) @@ pairs), n + 1)
            ELSE IF At(s, n) = "," THEN JSONObject(s, SkipSpace(s, n + 1), (key :> r.val) @@ pairs)
            ELSE DecodeError
        value(key, r) == member(key, r, SkipSpace(s, r.end))
        colon(k, c) ==
            IF k = 0 \/ At(s, c) # ":" THEN DecodeError
            ELSE value(SubSeq(s, i + 1, k - 1), scan_once(s, SkipSpace(s, c + 1)))
        key_end(k) == colon(k, SkipSpace(s, k + 1))
    IN IF At(s, i) # "\"" THEN DecodeError ELSE key_end(StringEnd(s, i + 1))

\* the items of an array from the value at i on; items read so far
JSONArray(s, i, items) ==
    LET item(r, n) ==
            IF ~ r.ok THEN DecodeError
            ELSE IF At(s, n) = "]" THEN Decoded(PyList(Append(items, r.val)), n + 1)
            ELSE IF At(s, n) = "," THEN JSONArray(s, SkipSpace(s, n + 1), Append(items, r.val))
            ELSE DecodeError
        value(r) == item(r, SkipSpace(s, r.end))
    IN value(scan_once(s, i))

\* the JSON value that starts at position i
scan_once(s, i) ==
    LET string(k) ==
            IF k = 0 THEN DecodeError ELSE Decoded(PyStr(SubSeq(s, i + 1, k - 1)), k + 1)
        object(n) ==
            IF At(s, n) = "}" THEN Decoded(PyDict(<< >>), n + 1) ELSE JSONObject(s, n, << >>)
        array(n) ==
            IF At(s, n) = "]" THEN Decoded(PyList(<< >>), n + 1) ELSE JSONArray(s, n, << >>)
        constant(number) ==
            IF number.ok THEN number
            ELSE IF StartsAt(s, i, "NaN") THEN Decoded(PyFloat("NaN"), i + 3)
            ELSE IF StartsAt(s, i, "Infinity") THEN Decoded(PyFloat("Infinity"), i + 8)
            ELSE IF StartsAt(s, i, "-Infinity") THEN Decoded(PyFloat("-Infinity"), i + 9)
            ELSE DecodeError
        at(c) ==
            IF c = "\"" THEN string(StringEnd(s, i + 1))
            ELSE IF c = "{" THEN object(SkipSpace(s, i + 1))
            ELSE IF c = "[" THEN array(SkipSpace(s, i + 1))
            ELSE IF StartsAt(s, i, "null") THEN Decoded(PyNone, i + 4)
            ELSE IF StartsAt(s, i, "true") THEN Decoded(PyBool(TRUE), i + 4)
            ELSE IF StartsAt(s, i, "false") THEN Decoded(PyBool(FALSE), i + 5)
            ELSE constant(scan_number(s, i))
    IN at(At(s, i))

\* json.loads(s): one value with nothing but whitespace around it; a failure
\* stands for JSONDecodeError
json_loads(s) ==
    LET whole(r) == IF r.ok /\ SkipSpace(s, r.end) = Len(s) + 1 THEN r ELSE DecodeError
    IN whole(scan_once(s, SkipSpace(s, 1)))

--------------------------------------------------------------------------
(* parse_llm_json_response *)

RECURSIVE code_blocks(_, _)
\* re.findall(code_block_pattern, s) from position i on: the captured groups
code_blocks(s, i) ==
    LET closed(b, c) ==
            IF c = 0 THEN << >>
            ELSE <<SubSeq(s, b, SkipSpaceBack(s, c, b) - 1)>> \o code_blocks(s, c + 3)
        body(b) == closed(b, find(s, Fence, b))
        opened(o) ==
            IF o = 0 THEN << >>
            ELSE body(SkipSpace(s, IF StartsAt(s, o + 3, "json") THEN o + 7 ELSE o + 3))
    IN opened(find(s, Fence, i))

RECURSIVE json_like(_, _)
\* re.findall(json_start_pattern, s) from position i on: each match runs from a
\* brace (bracket) to the last closing brace (bracket) of the text
json_like(s, i) ==
    LET match(close) ==
            IF close > i THEN <<SubSeq(s, i, close)>> \o json_like(s, close + 1)
            ELSE json_like(s, i + 1)
    IN IF i > Len(s) THEN << >>
       ELSE match(IF At(s, i) = "{" THEN rfind(s, "}", Len(s))
                  ELSE IF At(s, i) = "[" THEN rfind(s, "]", Len(s))
                  ELSE 0)

\* what parse_llm_json_response returns
Parsed(value, from) == [parsed |-> value, text |-> from]

RECURSIVE FirstParsed(_, _, _)
\* the first text of the list, from position i on, that json.loads accepts,
\* with its value; otherwise what the next stage gives
FirstParsed(texts, i, otherwise) ==
    LET tried(r) == IF r.ok THEN Parsed(r.val, texts[i])
                    ELSE FirstParsed(texts, i + 1, otherwise)
    IN IF i > Len(texts) THEN otherwise ELSE tried(json_loads(texts[i]))

\* match.strip() for each match
Stripped(texts) == [ i \in 1..Len(texts) |-> strip(texts[i]) ]

\* parse_llm_json_response(text) for a str: (parsed value or None, the text it
\* was parsed from)
parse_llm_json_response(text) ==
    LET json_matches(cleaned) == FirstParsed(json_like(cleaned, 1), 1, Parsed(PyNone, cleaned))
        whole(cleaned, r) == IF r.ok THEN Parsed(r.val, cleaned) ELSE json_matches(cleaned)
        stages(cleaned) ==
            FirstParsed(Stripped(code_blocks(cleaned, 1)), 1, whole(cleaned, json_loads(cleaned)))
    IN stages(strip(text))

--------------------------------------------------------------------------
(* WorkerNode *)

MaxWorkerCalls == 2

\* ActionSpec of framework.graph.plan: the fields worker_node.py reads
ActionSpec(action_type, name, args) ==
    [action_type |-> action_type,
     tool_name |-> IF action_type = "tool_use" THEN name ELSE "",
     tool_args |-> IF action_type = "tool_use" THEN args ELSE << >>,
     function_name |-> IF action_type = "function" THEN name ELSE "",
     function_args |-> IF action_type = "function" THEN args ELSE << >>,
     graph_id |-> IF action_type = "sub_graph" THEN name ELSE "",
     code |-> IF action_type = "code_execution" THEN name ELSE ""]

\* PlanStep: the action and the inputs map
PlanStep(action, inputs) == [action |-> action, inputs |-> inputs]

StepExecutionResult(success, outputs, error, error_type, executor_type) ==
    [success |-> success, outputs |-> outputs, error |-> error,
     error_type |-> error_type, executor_type |-> executor_type]

\* a failed StepExecutionResult with the default (empty) outputs
Failure(error, error_type, executor_type) ==
    StepExecutionResult(FALSE, << >>, PyStr(error), PyStr(error_type), executor_type)

\* a successful StepExecutionResult
Success(outputs, executor_type) ==
    StepExecutionResult(TRUE, outputs, PyNone, PyNone, executor_type)

\* what a callable did when it was called: it returned a value or raised
Returns(value) == [raises |-> FALSE, message |-> "", value |-> value]

Raises(message) == [raises |-> TRUE, message |-> message, value |-> PyNone]

\* what calling an async function returns, and the value awaiting it gives
Coroutine(value) == [t |-> "coroutine", v |-> value]

\* if hasattr(result, "__await__"): result = await result
Awaited(value) == IF value.t = "coroutine" THEN value.v ELSE value

\* one call of a callee by the worker
Invocation(callee, name, args) == [callee |-> callee, name |-> name, args |-> args]

\* how a handler ends: the StepExecutionResult it returns or the exception it
\* lets through, and the callees it invoked
Handled(res, invoked) == [raised |-> FALSE, message |-> "", result |-> res, invoked |-> invoked]

Unhandled(message, invoked) ==
    [raised |-> TRUE, message |-> message, result |-> EmptyDict, invoked |-> invoked]

\* Runtime.decide: a new Decision without outcome; its id is its position
decide(log, chosen) == Append(log, [chosen |-> chosen, outcome |-> EmptyDict, record_calls |-> 0])

\* Runtime.record_outcome: closes the Decision; a second call for the same
\* Decision fails with AlreadyFinalised.  Of an outcome the log keeps the
\* success flag.
record_outcome(log, decision_id, success, outcome) ==
    IF log[decision_id].record_calls > 0
    THEN [raised |-> TRUE,
          log |-> [log EXCEPT ![decision_id].record_calls = @ + 1]]
    ELSE [raised |-> FALSE,
          log |-> [log EXCEPT ![decision_id].record_calls = @ + 1,
                              ![decision_id].outcome = [success |-> success]]]

\* value is a str that starts with "$"
IsReference(value) == IsStr(value) /\ startswith(value.v, "$")

\* value[1:]
ref_key(value) == From(value.v, 2)

\* the mutant of _resolve_inputs: a reference that the context does not hold
\* is dropped
_resolve_inputs_dropping(inputs, cx) ==
    IF ~ IsDict(cx) /\ \E key \in DOMAIN inputs : IsReference(inputs[key])
    THEN Raises("'NoneType' object has no attribute 'get'")
    ELSE Returns([ key \in { k \in DOMAIN inputs :
                                IsReference(inputs[k]) => ref_key(inputs[k]) \in DOMAIN cx.v } |->
                     IF IsReference(inputs[key]) THEN cx.v[ref_key(inputs[key])] ELSE inputs[key] ])

\* _resolve_inputs: context.get(ref_key, value) for the references; it raises
\* when it has to look up a reference in a context that is no dict
_resolve_inputs(inputs, cx) ==
    IF ~ IsDict(cx) /\ \E key \in DOMAIN inputs : IsReference(inputs[key])
    THEN Raises("'NoneType' object has no attribute 'get'")
    ELSE Returns([ key \in DOMAIN inputs |->
                     IF IsReference(inputs[key])
                     THEN Get(cx.v, ref_key(inputs[key]), inputs[key])
                     ELSE inputs[key] ])

\* the mutant of tool_arguments: the action's tool_args override the step inputs
tool_arguments_args_first(tool_args, inputs) ==
    LET args == Merge(inputs, tool_args)
    IN [ key \in DOMAIN args |->
           IF IsReference(args[key]) THEN Get(args, ref_key(args[key]), args[key])
           ELSE args[key] ]

\* _execute_tool_use, lines 347-359: tool_args merged with the inputs, then the
\* references resolved from the merged map
tool_arguments(tool_args, inputs) ==
    LET args == Merge(tool_args, inputs)
    IN [ key \in DOMAIN args |->
           IF IsReference(args[key]) THEN Get(args, ref_key(args[key]), args[key])
           ELSE args[key] ]

\* lines 372-387: the result of a function registered under a tool's name
function_as_tool_result(value) ==
    IF IsDict(value) /\ "success" \in DOMAIN value.v
    THEN StepExecutionResult(value.v["success"].v,
                             Get(value.v, "outputs", PyDict(<< >>)).v,
                             Get(value.v, "error", PyNone),
                             Get(value.v, "error_type", PyNone),
                             "tool_use")
    ELSE Success([result |-> value], "tool_use")

\* lines 437-444: {"result": content}, updated with the JSON object in content
tool_outputs(content) ==
    LET update(outputs, parsed) ==
            IF parsed.ok /\ IsDict(parsed.val) THEN Merge(outputs, parsed.val.v) ELSE outputs
    IN update([result |-> PyStr(content)], json_loads(content))

\* the mutant of _execute_tool_use: the tool registry is consulted before the
\* registered functions
_execute_tool_use_registry_first(self, action, inputs, env) ==
    LET tool_name == action.tool_name
        args == tool_arguments(action.tool_args, inputs)
        tool_call == Invocation("tool", tool_name, args)
        func_call == Invocation("function", tool_name, args)
    IN IF tool_name = "" THEN
            Handled(Failure("No tool name specified", "invalid_action", "tool_use"), << >>)
       ELSE IF tool_name \in self.tools /\ self.tool_executor THEN
            IF env.tool.raises
            THEN Handled(Failure(env.tool.message, "tool_exception", "tool_use"), <<tool_call>>)
            ELSE IF env.tool.value.is_error
            THEN Handled(StepExecutionResult(FALSE, << >>, PyStr(env.tool.value.content),
                                             PyStr("tool_error"), "tool_use"), <<tool_call>>)
            ELSE Handled(Success(tool_outputs(env.tool.value.content), "tool_use"), <<tool_call>>)
       ELSE IF tool_name \in self.functions THEN
            IF env.function.raises
            THEN Handled(Failure(env.function.message, "tool_exception", "tool_use"), <<func_call>>)
            ELSE Handled(function_as_tool_result(Awaited(env.function.value)), <<func_call>>)
       ELSE IF tool_name \notin self.tools THEN
            Handled(Failure("Tool '" \o tool_name \o "' not found", "missing_tool", "tool_use"), << >>)
       ELSE Handled(Failure("No tool executor configured", "configuration", "tool_use"), << >>)

_execute_tool_use(self, action, inputs, env) ==
    LET tool_name == action.tool_name
        args == tool_arguments(action.tool_args, inputs)
        tool_call == Invocation("tool", tool_name, args)
        func_call == Invocation("function", tool_name, args)
    IN IF tool_name = "" THEN
            Handled(Failure("No tool name specified", "invalid_action", "tool_use"), << >>)
       ELSE IF tool_name \in self.functions THEN
            IF env.function.raises
            THEN Handled(Failure(env.function.message, "tool_exception", "tool_use"), <<func_call>>)
            ELSE Handled(function_as_tool_result(Awaited(env.function.value)), <<func_call>>)
       ELSE IF tool_name \notin self.tools THEN
            Handled(Failure("Tool '" \o tool_name \o "' not found", "missing_tool", "tool_use"), << >>)
       ELSE IF ~ self.tool_executor THEN
            Handled(Failure("No tool executor configured", "configuration", "tool_use"), << >>)
       ELSE IF env.tool.raises THEN
            Handled(Failure(env.tool.message, "tool_exception", "tool_use"), <<tool_call>>)
       ELSE IF env.tool.value.is_error THEN
            Handled(StepExecutionResult(FALSE, << >>, PyStr(env.tool.value.content),
                                        PyStr("tool_error"), "tool_use"), <<tool_call>>)
       ELSE Handled(Success(tool_outputs(env.tool.value.content), "tool_use"), <<tool_call>>)

\* "rate" in str(e).lower(), for the messages of Environments
MentionsRate(message) == find(message, "rate", 1) > 0 \/ find(message, "Rate", 1) > 0

_execute_llm_call(self, action, inputs, env) ==
    LET llm_call == Invocation("llm", "complete", inputs)
    IN IF ~ self.llm THEN
            Handled(Failure("No LLM provider configured", "configuration", "llm_call"), << >>)
       ELSE IF env.llm.raises THEN
            Handled(Failure(env.llm.message,
                            IF MentionsRate(env.llm.message) THEN "rate_limit" ELSE "llm_error",
                            "llm_call"), <<llm_call>>)
       ELSE LET answered(content, parsed_json) ==
                    Handled(Success([result |-> IF parsed_json # PyNone THEN parsed_json
                                                ELSE PyStr(content),
                                     response |-> PyStr(content),
                                     parsed_json |-> parsed_json], "llm_call"), <<llm_call>>)
            IN answered(env.llm.value, parse_llm_json_response(env.llm.value).parsed)

_execute_sub_graph(self, action, inputs, env) ==
    LET sub_call == Invocation("sub_graph", action.graph_id, inputs)
    IN IF ~ self.sub_graph_executor THEN
            Handled(Failure("No sub-graph executor configured", "configuration", "sub_graph"), << >>)
       ELSE IF action.graph_id = "" THEN
            Handled(Failure("No graph ID specified", "invalid_action", "sub_graph"), << >>)
       ELSE IF env.sub_graph.raises THEN
            Handled(Failure(env.sub_graph.message, "sub_graph_exception", "sub_graph"), <<sub_call>>)
       ELSE LET r == env.sub_graph.value
            IN Handled(StepExecutionResult(r.success,
                                           IF r.success THEN r.output ELSE << >>,
                                           IF r.success THEN PyNone ELSE r.error,
                                           PyNone, "sub_graph"), <<sub_call>>)

_execute_function(self, action, inputs, env) ==
    LET func_name == action.function_name
        func_call == Invocation("function", func_name, Merge(action.function_args, inputs))
    IN IF func_name = "" THEN
            Handled(Failure("No function name specified", "invalid_action", "function"), << >>)
       ELSE IF func_name \notin self.functions THEN
            Handled(Failure("Function '" \o func_name \o "' not registered",
                            "missing_function", "function"), << >>)
       ELSE IF env.function.raises THEN
            Handled(Failure(env.function.message, "function_exception", "function"), <<func_call>>)
       ELSE Handled(Success([result |-> Awaited(env.function.value)], "function"), <<func_call>>)

\* "Security" in (sandbox_result.error or ""), for the errors of Environments
MentionsSecurity(error) == IsStr(error) /\ find(error.v, "Security", 1) > 0

\* _execute_code: neither the merge of context and inputs nor the sandbox call
\* is inside a try
_execute_code(self, action, inputs, cx, env) ==
    IF action.code = "" THEN
        Handled(Failure("No code specified", "invalid_action", "code_execution"), << >>)
    ELSE IF ~ IsDict(cx) THEN
        Unhandled("'NoneType' object is not a mapping", << >>)
    ELSE LET sandbox_call == Invocation("sandbox", action.code, Merge(cx.v, inputs))
             r == env.sandbox.value
         IN IF env.sandbox.raises THEN Unhandled(env.sandbox.message, <<sandbox_call>>)
            ELSE IF r.success THEN
                 Handled(Success(Merge([result |-> r.result], r.variables), "code_execution"),
                         <<sandbox_call>>)
            ELSE Handled(StepExecutionResult(FALSE, << >>, r.error,
                                             PyStr(IF MentionsSecurity(r.error) THEN "security"
                                                   ELSE "code_error"),
                                             "code_execution"), <<sandbox_call>>)

_dispatch(self, action, inputs, cx, env) ==
    CASE action.action_type = "llm_call" -> _execute_llm_call(self, action, inputs, env)
      [] action.action_type = "tool_use" -> _execute_tool_use(self, action, inputs, env)
      [] action.action_type = "sub_graph" -> _execute_sub_graph(self, action, inputs, env)
      [] action.action_type = "function" -> _execute_function(self, action, inputs, env)
      [] action.action_type = "code_execution" -> _execute_code(self, action, inputs, cx, env)
      [] OTHER -> Handled(Failure("Unknown action type: " \o action.action_type,
                                  "invalid_action", ""), << >>)

\* the mutant of on_exception: the exception is turned into a result without
\* recording an outcome
on_exception_unrecorded(log, decision_id, message) ==
    [raised |-> FALSE, log |-> log,
     result |-> StepExecutionResult(FALSE, << >>, PyStr(message), PyStr("exception"), "")]

\* the mutant of on_exception: the outcome is recorded and the exception is
\* raised again
on_exception_reraised(log, decision_id, message) ==
    [raised |-> TRUE, log |-> record_outcome(log, decision_id, FALSE, PyStr(message)).log,
     result |-> StepExecutionResult(FALSE, << >>, PyStr(message), PyStr("exception"), "")]

\* execute, lines 196-211: the except branch
on_exception(log, decision_id, message) ==
    LET return(rec) ==
            [raised |-> rec.raised, log |-> rec.log,
             result |-> StepExecutionResult(FALSE, << >>, PyStr(message), PyStr("exception"), "")]
    IN return(record_outcome(log, decision_id, FALSE, PyStr(message)))

\* execute, lines 185-194: the outcome of a dispatch that returned
on_result(log, decision_id, res) ==
    LET return(rec) ==
            IF rec.raised THEN on_exception(rec.log, decision_id, "AlreadyFinalised")
            ELSE [raised |-> FALSE, log |-> rec.log, result |-> res]
    IN return(record_outcome(log, decision_id, res.success,
                             IF res.success THEN PyDict(res.outputs) ELSE res.error))

\* WorkerNode.execute(step, context) against the Runtime's decisions: what
\* the call leaves behind and returns
execute(self, log, st, cx, env) ==
    LET returned(resolved, dispatched, ended) ==
            [decisions |-> ended.log,
             resolved_inputs |-> IF resolved.raises THEN EmptyDict ELSE resolved.value,
             invocations |-> dispatched.invoked,
             raised |-> ended.raised,
             step_result |-> ended.result]
        record(log1, resolved, dispatched) ==
            returned(resolved, dispatched,
                     IF dispatched.raised
                     THEN on_exception(log1, Len(log1), dispatched.message)
                     ELSE on_result(log1, Len(log1), dispatched.result))
        try(log1, resolved) ==
            record(log1, resolved,
                   IF resolved.raises THEN Unhandled(resolved.message, << >>)
                   ELSE _dispatch(self, st.action, resolved.value, cx, env))
    IN try(decide(log, st.action.action_type), _resolve_inputs(st.inputs, cx))

--------------------------------------------------------------------------
(* The workers, steps and contexts explored *)

ShapedFailure ==
    PyDict([success |-> PyBool(FALSE), outputs |-> PyDict(<< >>), error |-> PyStr("no lead")])

ShapedSuccess ==
    PyDict([success |-> PyBool(TRUE), outputs |-> PyDict([lead |-> PyInt(1)]), error |-> PyNone])

ToolResult(content, is_error) == [content |-> content, is_error |-> is_error]

SubGraphResult(success, output, error) == [success |-> success, output |-> output, error |-> error]

SandboxResult(success, res, variables, error) ==
    [success |-> success, result |-> res, variables |-> variables, error |-> error]

\* what the callees of a worker do when they are called
Environment(function, tool, llm, sub_graph, sandbox) ==
    [function |-> function, tool |-> tool, llm |-> llm, sub_graph |-> sub_graph,
     sandbox |-> sandbox]

Answering ==
    Environment(Returns(PyInt(7)),
                Returns(ToolResult("{\"result\": \"x\", \"a\": 1}", FALSE)),
                Returns("@@@json\n{\"a\": 1}\n@@@"),
                Returns(SubGraphResult(TRUE, [o |-> PyInt(1)], PyNone)),
                Returns(SandboxResult(TRUE, PyInt(2), [v |-> PyInt(3)], PyNone)))

Refusing ==
    Environment(Returns(ShapedFailure),
                Returns(ToolResult("not allowed", TRUE)),
                Returns("hello"),
                Returns(SubGraphResult(FALSE, << >>, PyStr("sub failed"))),
                Returns(SandboxResult(FALSE, PyNone, << >>, PyStr("Security violation: import"))))

Raising ==
    Environment(Raises("boom"), Raises("connection reset"), Raises("Rate limit exceeded"),
                Raises("sub boom"), Raises("out of memory"))

Shaping ==
    Environment(Returns(Coroutine(ShapedSuccess)),
                Returns(ToolResult("{\"a\": 1}", FALSE)),
                Raises("boom"),
                Returns(SubGraphResult(TRUE, << >>, PyNone)),
                Returns(SandboxResult(FALSE, PyNone, << >>, PyStr("division by zero"))))

Async ==
    Environment(Returns(Coroutine(PyDict([lead |-> PyInt(1)]))),
                Returns(ToolResult("[1]", FALSE)),
                Returns("{\"a\": 1}"),
                Returns(SubGraphResult(TRUE, [o |-> PyInt(1)], PyNone)),
                Returns(SandboxResult(TRUE, PyInt(2), << >>, PyNone)))

AsyncRefusing ==
    Environment(Returns(Coroutine(ShapedFailure)),
                Returns(ToolResult("plain text", FALSE)),
                Returns("hello"),
                Returns(SubGraphResult(TRUE, [o |-> PyInt(1)], PyNone)),
                Returns(SandboxResult(TRUE, PyInt(2), << >>, PyNone)))

Environments == { Answering, Refusing, Raising, Shaping, Async, AsyncRefusing }

\* WorkerNode(runtime, llm, tools, tool_executor, functions, sub_graph_executor)
WorkerNode(llm, tools, tool_executor, functions, sub_graph_executor) ==
    [llm |-> llm, tools |-> tools, tool_executor |-> tool_executor, functions |-> functions,
     sub_graph_executor |-> sub_graph_executor]

\* a fully equipped worker in every environment; a worker without LLM, tool
\* executor, functions and sub-graph executor; a worker without tools
WorkerSetups ==
    { WorkerNode(TRUE, {"t", "dup"}, TRUE, {"f", "dup"}, TRUE) @@ [does |-> env] :
         env \in Environments }
    \cup { WorkerNode(FALSE, {"t"}, FALSE, { }, FALSE) @@ [does |-> env] :
              env \in { Refusing } }
    \cup { WorkerNode(TRUE, { }, TRUE, {"f"}, TRUE) @@ [does |-> env] :
              env \in { Answering } }

StepInputs ==
    { << >>,
      [x |-> PyStr("$a")],
      [b |-> PyStr("$c"), y |-> PyInt(1)],
      [x |-> PyStr("text"), q |-> PyStr("$")] }

ToolArgs ==
    { << >>,
      [c |-> PyInt(1), a |-> PyStr("$b")],
      [x |-> PyStr("own"), y |-> PyStr("$x")] }

FunctionArgs == { << >>, [k |-> PyInt(0), x |-> PyStr("own")] }

Contexts ==
    { PyDict(<< >>),
      PyDict([a |-> PyInt(5)]),
      PyDict([a |-> PyStr("$b"), c |-> PyStr("v")]),
      PyNone }

Steps ==
    { PlanStep(ActionSpec("tool_use", name, << >>), << >>) : name \in {"", "missing"} }
    \cup { PlanStep(ActionSpec("tool_use", "t", args), inputs) :
              args \in ToolArgs, inputs \in StepInputs }
    \cup { PlanStep(ActionSpec("tool_use", "dup", [c |-> PyInt(1), a |-> PyStr("$b")]),
                     [b |-> PyStr("$c"), y |-> PyInt(1)]) }
    \cup { PlanStep(ActionSpec("function", name, << >>), << >>) : name \in {"", "missing"} }
    \cup { PlanStep(ActionSpec("function", "f", args), inputs) :
              args \in FunctionArgs, inputs \in StepInputs }
    \cup { PlanStep(ActionSpec("llm_call", "", << >>), inputs) : inputs \in StepInputs }
    \cup { PlanStep(ActionSpec("sub_graph", name, << >>), [x |-> PyStr("$a")]) : name \in {"", "g"} }
    \cup { PlanStep(ActionSpec("code_execution", code, << >>), [x |-> PyStr("$a")]) :
              code \in {"", "y = x"} }
    \cup { PlanStep(ActionSpec("other", "", << >>), << >>) }

--------------------------------------------------------------------------
(* The worker as a state machine *)

\* the executor is not used
ExecutorIdle ==
    /\ graph = Linear.graph @@ [max_steps |-> 1, max_retries_per_node |-> 1]
    /\ node_registry = Linear.registry
    /\ runtime = NoRun
    /\ calls = 0
    /\ pc = "idle"
    /\ call_input = EmptyDict
    /\ session_state = EmptyDict
    /\ memory = EmptyDict
    /\ input_data = EmptyDict
    /\ current_node_id = None
    /\ steps = 0
    /\ path = << >>
    /\ ctx = NoContext
    /\ execs = << >>
    /\ result = NoResult

WorkerInit ==
    /\ ExecutorIdle
    /\ ParserIdle
    /\ ClientIdle
    /\ RunnerIdle
    /\ BuilderIdle
    /\ worker \in WorkerSetups
    /\ decisions = << >>
    /\ step = EmptyDict
    /\ context = EmptyDict
    /\ resolved_inputs = EmptyDict
    /\ invocations = << >>
    /\ step_result = EmptyDict
    /\ propagated = FALSE

\* one call of WorkerNode.execute
Execute ==
    /\ Len(decisions) < MaxWorkerCalls
    /\ \E st \in Steps, cx \in Contexts :
          \E done \in { execute(worker, decisions, st, cx, worker.does) } :
             /\ step' = st
             /\ context' = cx
             /\ decisions' = done.decisions
             /\ resolved_inputs' = done.resolved_inputs
             /\ invocations' = done.invocations
             /\ step_result' = done.step_result
             /\ propagated' = done.raised
    /\ UNCHANGED <<worker, executor_vars, parser_vars, client_vars, runner_vars, builder_vars, plan_vars>>

WorkerNext == Execute

WorkerSpec == WorkerInit /\ [][WorkerNext]_vars

--------------------------------------------------------------------------
(* Claims about WorkerNode *)

\* a call of WorkerNode.execute has returned
Called == Len(decisions) > 0

\* the call made was for an action of this type
CalledFor(action_type) == Called /\ step.action.action_type = action_type

DecisionClosedOnce(d) == d.record_calls = 1 /\ DOMAIN d.outcome = {"success"}

\* C14: every call of WorkerNode.execute appends exactly one Decision, chosen
\* for the step's action type, and leaves the earlier Decisions as they were;
\* once the call has returned, record_outcome has been called exactly once for
\* every Decision, with the success flag of the result returned, also when the
\* result is the one made from an exception.
C14_DecisionLogging ==
    /\ [] (\A i \in 1..Len(decisions) : DecisionClosedOnce(decisions[i]))
    /\ [] (Called => Last(decisions).outcome.success = step_result.success)
    /\ [][ worker_vars' # worker_vars =>
              /\ Len(decisions') = Len(decisions) + 1
              /\ SubSeq(decisions', 1, Len(decisions)) = decisions
              /\ Last(decisions').chosen = step'.action.action_type ]_vars

\* C14 witness: a successful call was followed by a call whose input
\* resolution raised; both Decisions are closed.
C14_Witness ==
    /\ Len(decisions) = 2
    /\ decisions[1].outcome.success
    /\ step_result.error_type = PyStr("exception")
    /\ invocations = << >>
    /\ ~ decisions[2].outcome.success
    /\ decisions[2].record_calls = 1

\* C15: for a context that is a dict, the resolved inputs have the keys of the
\* step inputs; a str value "$name" is replaced by context[name] when name is
\* a key of the context and kept when it is not; every other value is kept.
C15_InputResolution ==
    (Called /\ context.t = "dict") =>
        /\ DOMAIN resolved_inputs = DOMAIN step.inputs
        /\ \A key \in DOMAIN step.inputs :
              LET value == step.inputs[key]
                  name == IF Len(value.v) > 1 THEN SubSeq(value.v, 2, Len(value.v)) ELSE ""
              IN IF value.t = "str" /\ Len(value.v) > 0 /\ SubSeq(value.v, 1, 1) = "$"
                 THEN IF name \in DOMAIN context.v
                      THEN resolved_inputs[key] = context.v[name]
                      ELSE resolved_inputs[key] = value
                 ELSE resolved_inputs[key] = value

\* C15 witness: a reference found in the context was replaced by the context's
\* value, next to a value that is no reference.
C15_Witness ==
    /\ Called
    /\ context = PyDict([a |-> PyStr("$b"), c |-> PyStr("v")])
    /\ step.inputs = [b |-> PyStr("$c"), y |-> PyInt(1)]
    /\ resolved_inputs = [b |-> PyStr("v"), y |-> PyInt(1)]

\* the arguments the callee of a tool_use step was called with
ToolCalled == CalledFor("tool_use") /\ Len(invocations) = 1

args == invocations[1].args

\* tool_args merged with the resolved inputs, the inputs overriding
merged ==
    [ key \in DOMAIN step.action.tool_args \cup DOMAIN resolved_inputs |->
        IF key \in DOMAIN resolved_inputs THEN resolved_inputs[key]
        ELSE step.action.tool_args[key] ]

\* value is a "$name" str whose name is a key of the map
RefersInto(value, map) ==
    /\ value.t = "str"
    /\ Len(value.v) > 0
    /\ SubSeq(value.v, 1, 1) = "$"
    /\ (IF Len(value.v) > 1 THEN SubSeq(value.v, 2, Len(value.v)) ELSE "") \in DOMAIN map

Referred(value) == IF Len(value.v) > 1 THEN SubSeq(value.v, 2, Len(value.v)) ELSE ""

\* C16 as stated: the callee's arguments have the keys of the merged map and
\* none of them is left as a reference to a key of the merged map.
C16_NoReferenceLeft ==
    ToolCalled =>
        /\ DOMAIN args = DOMAIN merged
        /\ \A key \in DOMAIN args : ~ RefersInto(args[key], merged)

\* C16 amended: the callee's arguments have the keys of the merged map; an
\* argument whose merged value refers to a key of the merged map is that
\* key's merged value, taken as it is (one level); every other argument is
\* its merged value.
C16_ToolArguments ==
    ToolCalled =>
        /\ DOMAIN args = DOMAIN merged
        /\ \A key \in DOMAIN args :
              IF RefersInto(merged[key], merged)
              THEN args[key] = merged[Referred(merged[key])]
              ELSE args[key] = merged[key]

\* C16 witness: tool_args a = "$b" met the step input b = "$c" that the
\* context could not resolve; a was called with "$c" while c is a key.
C16_Witness ==
    /\ ToolCalled
    /\ step.action.tool_args = [c |-> PyInt(1), a |-> PyStr("$b")]
    /\ resolved_inputs = [b |-> PyStr("$c"), y |-> PyInt(1)]
    /\ args = [a |-> PyStr("$c"), b |-> PyInt(1), c |-> PyInt(1), y |-> PyInt(1)]

\* C17: for a tool_use step with a tool name whose execution did not raise
\* before the lookup: a registered function of that name is the one callee,
\* also when a tool has the name; otherwise the result is missing_tool when no
\* tool has the name and configuration when there is no tool executor, both
\* without any invocation; otherwise the tool is invoked once through the
\* executor, and the result is tool_exception when it raises, tool_error when
\* it reports an error, and a success otherwise.
C17_ToolLookup ==
    (/\ CalledFor("tool_use")
     /\ step.action.tool_name # ""
     /\ step_result.error_type # PyStr("exception")) =>
        LET name == step.action.tool_name
            failed(error_type) == ~ step_result.success /\ step_result.error_type = PyStr(error_type)
        IN /\ Len(invocations) <= 1
           /\ \A i \in 1..Len(invocations) : invocations[i].name = name
           /\ IF name \in worker.functions
              THEN /\ Len(invocations) = 1
                   /\ invocations[1].callee = "function"
                   /\ worker.does.function.raises => failed("tool_exception")
              ELSE IF name \notin worker.tools
              THEN failed("missing_tool") /\ invocations = << >>
              ELSE IF ~ worker.tool_executor
              THEN failed("configuration") /\ invocations = << >>
              ELSE /\ Len(invocations) = 1
                   /\ invocations[1].callee = "tool"
                   /\ IF worker.does.tool.raises THEN failed("tool_exception")
                      ELSE IF worker.does.tool.value.is_error THEN failed("tool_error")
                      ELSE step_result.success

\* C17 witness: the name 'dup' is a registered function and a tool; the
\* function was called and raised.
C17_Witness ==
    /\ CalledFor("tool_use")
    /\ step.action.tool_name = "dup"
    /\ "dup" \in worker.tools /\ "dup" \in worker.functions
    /\ Len(invocations) = 1
    /\ invocations[1].callee = "function"
    /\ step_result.error_type = PyStr("tool_exception")

\* the tool of a tool_use step was invoked and answered without error
ToolAnswered ==
    /\ ToolCalled
    /\ invocations[1].callee = "tool"
    /\ step_result.success

\* C18: when the tool answered, outputs.result is the content it returned; if
\* the content is a JSON object, each of its top-level keys is in the outputs
\* with its value, next to the result field; if not, the outputs are {result}.
C18_ToolOutputs ==
    ToolAnswered =>
        LET content == worker.does.tool.value.content
            parsed == json_loads(content)
        IN /\ "result" \in DOMAIN step_result.outputs
           /\ step_result.outputs["result"] = PyStr(content)
           /\ IF parsed.ok /\ parsed.val.t = "dict"
              THEN \A key \in DOMAIN parsed.val.v :
                      /\ key \in DOMAIN step_result.outputs
                      /\ key # "result" => step_result.outputs[key] = parsed.val.v[key]
              ELSE DOMAIN step_result.outputs = {"result"}

\* the registered function of a function step was called and returned
FunctionReturned ==
    /\ CalledFor("function")
    /\ Len(invocations) = 1
    /\ ~ worker.does.function.raises

\* C19: when the function of a FUNCTION action returned (directly or when
\* awaited) a dict with a success key, the result has that dict's success,
\* outputs and error; for any other value it is a success with {result: value}.
C19_FunctionShape ==
    FunctionReturned =>
        LET r == worker.does.function.value
            value == IF r.t = "coroutine" THEN r.v ELSE r
        IN IF value.t = "dict" /\ "success" \in DOMAIN value.v
           THEN /\ step_result.success = value.v["success"].v
                /\ step_result.outputs = value.v["outputs"].v
                /\ step_result.error = value.v["error"]
           ELSE /\ step_result.success
                /\ step_result.outputs = [result |-> value]

--------------------------------------------------------------------------
(* parse_llm_json_response as a state machine: a text is drawn, then parsed *)

\* the JSON texts of the values explored
JsonTexts ==
    { "{\"a\": 1}", "[1, 2]", "\"a\"", "1", "-2", "true", "null", "{}", "[]",
      "{\"a\": {\"b\": [ ]}}", "{\"k\": \"]\"}", "\"a@@@b\"", "[\"@@@\"]" }

\* what separates a fence from the text it wraps
Separators == {"\n", " ", ""}

Forms == {"bare", "json", "generic"}

\* the text t as it is, in a json fence, or in a generic fence
Wrap(form, sep, t) ==
    CASE form = "bare" -> t
      [] form = "json" -> Fence \o "json" \o sep \o t \o sep \o Fence
      [] form = "generic" -> Fence \o sep \o t \o sep \o Fence

\* texts without whitespace at either end that hold no JSON
ProseTexts ==
    { "hello", "no json here", "{oops", "{oops}", "[a, b", "say: hi",
      "@@@\nhi\n@@@", "@@@json\nhi\n@@@" }

Paddings == {"", " ", "\n\t"}

Responses ==
    { Wrap(form, sep, t) : form \in Forms, sep \in Separators, t \in JsonTexts }
    \cup { left \o t \o right : left \in Paddings, right \in Paddings, t \in ProseTexts }

NotParsed == EmptyDict

ParserInit ==
    /\ ExecutorIdle
    /\ WorkerIdle
    /\ ClientIdle
    /\ RunnerIdle
    /\ BuilderIdle
    /\ response_text \in Responses
    /\ response_json = NotParsed

\* parsed, cleaned = parse_llm_json_response(response_text)
Parse ==
    /\ response_json = NotParsed
    /\ response_json' = parse_llm_json_response(response_text)
    /\ UNCHANGED <<response_text, executor_vars, worker_vars, client_vars, runner_vars, builder_vars, plan_vars>>

ParserNext == Parse

ParserSpec == ParserInit /\ [][ParserNext]_vars

\* C20: the value parsed from the bare JSON text of v, from that text in a
\* json fence and from that text in a generic fence is v; for a text that
\* holds no JSON the result is None with the stripped text.
C20_JsonExtraction ==
    response_json # NotParsed =>
        /\ \A form \in Forms, sep \in Separators, t \in JsonTexts :
              response_text = Wrap(form, sep, t) =>
                 response_json.parsed = json_loads(t).val
        /\ \A left \in Paddings, right \in Paddings, t \in ProseTexts :
              response_text = left \o t \o right =>
                 response_json = [parsed |-> PyNone, text |-> t]

--------------------------------------------------------------------------
(* Part III: MCPClient (core/framework/runner/mcp_client.py) *)

\* number of public calls (connect, list_tools, call_tool, disconnect,
\* __exit__) one behaviour makes on the client
MaxClientCalls == 3

\* number of background threads one behaviour starts
MaxLoops == 2

MCPServerConfig(transport, command, url) ==
    [transport |-> transport, command |-> command, url |-> url]

Stdio == MCPServerConfig("stdio", "server", "")

Http == MCPServerConfig("http", "", "http://host")

Configs ==
    { Stdio, Http,
      MCPServerConfig("stdio", "", ""),
      MCPServerConfig("http", "", ""),
      MCPServerConfig("sse", "", "http://host") }

\* server_name is config.name in every tool and is left out
MCPTool(name, description, input_schema) ==
    [name |-> name, description |-> description, input_schema |-> input_schema]

\* a tool as the server lists it
ToolData(name, description, inputSchema) ==
    [name |-> name, description |-> description, inputSchema |-> inputSchema]

\* what a tools/list request may be answered with: the list of tool_data,
\* a JSON-RPC error, or a transport exception
Listed(tools) == [kind |-> "result", tools |-> tools]

RpcError == [kind |-> "error"]

TransportException == [kind |-> "exception"]

ToolLists ==
    { << >>,
      << ToolData("a", "A", "SA") >>,
      << ToolData("a", "A", "SA"), ToolData("b", "B", "SB") >>,
      << ToolData("a", "A", "SA"), ToolData("a", "A2", "SA2") >> }

\* over HTTP the tool_data are the dicts of the JSON body, which may lack keys
HttpToolLists ==
    ToolLists \cup { << [name |-> "b"] >>,
                     << ToolData("a", "A", "SA"), [description |-> "B"] >> }

\* the items of a content array: TextContent has text, ImageContent has data,
\* EmbeddedResource has neither
TextContent(text) == [type |-> "text", text |-> text]

ImageContent(data) == [type |-> "image", data |-> data]

EmbeddedResource == [type |-> "resource", resource |-> "r"]

Contents ==
    { << >>,
      << TextContent("t1") >>,
      << TextContent("t1"), TextContent("t2") >>,
      << ImageContent("d"), TextContent("t1") >>,
      << EmbeddedResource, TextContent("t1") >>,
      << EmbeddedResource >> }

Called_(content) == [kind |-> "result", content |-> content]

ListResponses(lists) == { Listed(l) : l \in lists } \cup { RpcError, TransportException }

CallResponses == { Called_(c) : c \in Contents } \cup { RpcError, TransportException }

\* the tool names a caller asks for: "a" and "b" may be served, "c" never is
ToolNames == { "a", "c" }

Operations == { "connect", "list_tools", "call_tool", "disconnect", "__exit__" }

\* how a public call returned
Returned(op, value) == [op |-> op, raised |-> FALSE, error |-> "", value |-> value]

Raised(op, error) == [op |-> op, raised |-> TRUE, error |-> error, value |-> PyNone]

\* list(self._tools.values()), as the set of the cached tools
ToolsValue(tools) == [t |-> "tools", v |-> Range(tools)]

\* _discover_tools caching the names and schemas without the descriptions
RECURSIVE cache_tools_undescribed(_, _, _)
cache_tools_undescribed(tools_list, i, cache) ==
    IF i > Len(tools_list) THEN [raised |-> FALSE, tools |-> cache]
    ELSE IF "name" \notin DOMAIN tools_list[i] THEN [raised |-> TRUE, tools |-> cache]
    ELSE cache_tools_undescribed(tools_list, i + 1,
             (tools_list[i].name :>
                 MCPTool(tools_list[i].name, "",
                         Get(tools_list[i], "inputSchema", "{}"))) @@ cache)

\* _discover_tools, lines 245-253: the cache built from tools_list, and
\* whether a tool_data without a name stopped it
RECURSIVE cache_tools(_, _, _)
cache_tools(tools_list, i, cache) ==
    IF i > Len(tools_list) THEN [raised |-> FALSE, tools |-> cache]
    ELSE IF "name" \notin DOMAIN tools_list[i] THEN [raised |-> TRUE, tools |-> cache]
    ELSE cache_tools(tools_list, i + 1,
             (tools_list[i].name :>
                 MCPTool(tools_list[i].name,
                         Get(tools_list[i], "description", ""),
                         Get(tools_list[i], "inputSchema", "{}"))) @@ cache)

\* _call_tool_stdio_async, lines 347-359: what is returned for result.content
extract_content(content) ==
    IF Len(content) = 0 THEN PyNone
    ELSE IF "text" \in DOMAIN content[1] THEN PyStr(content[1].text)
    ELSE IF "data" \in DOMAIN content[1] THEN PyStr(content[1].data)
    ELSE PyList(content)

\* _call_tool_http handing the body of an error response back to the caller
_call_tool_http_returning(op, response) ==
    IF response.kind = "exception" THEN Raised(op, "RuntimeError")
    ELSE Returned(op, PyList(IF response.kind = "result" THEN response.content ELSE << >>))

\* _call_tool_http, lines 379-387: what the call returns or raises for the
\* response to the POST
_call_tool_http(op, response) ==
    IF response.kind = "result" THEN Returned(op, PyList(response.content))
    ELSE Raised(op, "RuntimeError")

\* the references disconnect clears, and everything else of the connection
stdio_refs == <<_loop, _loop_thread, _session, _stdio_context, _read_stream, _write_stream>>

http_refs == <<_http_client, http_clients>>

\* a background thread as _connect_stdio starts it: run_event_loop has not
\* run yet, the loop runs until disconnect stops it
Thread == [stage |-> "thread", running |-> TRUE, launched |-> FALSE]

\* the connection_error list of the _connect_stdio call that started loop l
connection_error(l) == loops[l].stage = "failed"

\* the connection_ready event of that call
connection_ready(l) == loops[l].stage \in { "ready", "failed" }

\* the loop_started event of that call
loop_started(l) == loops[l].stage # "thread"

\* the child processes launched so far: stdio_client(...).__aenter__ has returned
processes == { l \in DOMAIN loops : loops[l].launched }

\* nothing has been received yet
NoResponse == [list |-> EmptyDict, call |-> EmptyDict]

ClientInit ==
    /\ ExecutorIdle
    /\ WorkerIdle
    /\ ParserIdle
    /\ RunnerIdle
    /\ BuilderIdle
    /\ config \in Configs
    /\ _connected = FALSE
    /\ _loop = Null
    /\ _loop_thread = Null
    /\ _session = Null
    /\ _stdio_context = Null
    /\ _read_stream = Null
    /\ _write_stream = Null
    /\ _http_client = Null
    /\ _tools = EmptyDict
    /\ loops = << >>
    /\ http_clients = << >>
    /\ client_pc = "idle"
    /\ client_call = EmptyDict
    /\ client_calls = 0
    /\ client_return = EmptyDict
    /\ sent = << >>
    /\ received = NoResponse

\* the last public call was a call_tool that raised and left the client connected
CallToolFailed ==
    /\ client_return # EmptyDict
    /\ client_return.op = "call_tool"
    /\ client_return.raised
    /\ _connected

\* a public method is called: the caller's thread is idle
Begin(op, tool_name, l) ==
    /\ client_pc = "idle"
    /\ client_calls < MaxClientCalls
    /\ client_calls' = client_calls + 1
    /\ client_call' = [op |-> op, tool_name |-> tool_name, loop |-> l, timed_out |-> FALSE,
                       after_failure |-> CallToolFailed]

\* the public call returns or raises
Return(value) ==
    /\ client_pc' = "idle"
    /\ client_return' = value

\* the rest of connect, list_tools and call_tool after connect() has returned
\* with the cache tools: lines 315 and 331-337.  requests are the requests
\* sent so far.  Over stdio the coroutine is handed to the loop and the
\* caller waits for future.result(); over HTTP the POST returns or raises.
AfterConnect(call, tools, requests, got) ==
    IF call.op = "connect"
    THEN Return(Returned(call.op, PyNone)) /\ sent' = requests /\ received' = got
    ELSE IF call.op = "list_tools"
    THEN Return(Returned(call.op, ToolsValue(tools))) /\ sent' = requests /\ received' = got
    ELSE IF call.tool_name \notin DOMAIN tools
    THEN Return(Raised(call.op, "ValueError")) /\ sent' = requests /\ received' = got
    ELSE IF config.transport = "stdio"
    THEN IF _session = Null
         THEN Return(Raised(call.op, "RuntimeError")) /\ sent' = requests /\ received' = got
         ELSE /\ client_pc' = "call_tool"
              /\ client_return' = client_return
              /\ sent' = Append(requests, "tools/call")
              /\ received' = got
    ELSE IF _http_client' = Null
    THEN Return(Raised(call.op, "RuntimeError")) /\ sent' = requests /\ received' = got
    ELSE \E response \in CallResponses :
            /\ Return(_call_tool_http(call.op, response))
            /\ sent' = Append(requests, "tools/call")
            /\ received' = [got EXCEPT !.call = response]

\* connect, list_tools or call_tool on a connected client: connect returns
\* at line 128
Connected ==
    /\ _connected
    /\ UNCHANGED <<config, _connected, stdio_refs, http_refs, _tools, loops>>
    /\ \E op \in Operations \ { "disconnect", "__exit__" }, tool_name \in ToolNames :
          /\ op # "call_tool" => tool_name = "a"
          /\ Begin(op, tool_name, Null)
          /\ AfterConnect(client_call', _tools, sent, received)
    /\ UNCHANGED <<executor_vars, worker_vars, parser_vars, runner_vars, builder_vars, plan_vars>>

\* connect (from connect, list_tools or call_tool) over stdio,
\* lines 143-201: without a command it raises, otherwise the background
\* thread is started and the caller waits for loop_started
_connect_stdio ==
    /\ ~_connected
    /\ config.transport = "stdio"
    /\ \E op \in Operations \ { "disconnect", "__exit__" }, tool_name \in ToolNames :
          /\ op # "call_tool" => tool_name = "a"
          /\ IF config.command = ""
             THEN /\ Begin(op, tool_name, Null)
                  /\ Return(Raised(op, "ValueError"))
                  /\ UNCHANGED <<_loop_thread, loops>>
             ELSE /\ Len(loops) < MaxLoops
                  /\ Begin(op, tool_name, Len(loops) + 1)
                  /\ loops' = Append(loops, Thread)
                  /\ _loop_thread' = Len(loops) + 1
                  /\ client_pc' = "loop_started"
                  /\ UNCHANGED client_return
    /\ UNCHANGED <<config, _connected, _loop, _session, _stdio_context, _read_stream,
                   _write_stream, http_refs, _tools, sent, received>>
    /\ UNCHANGED <<executor_vars, worker_vars, parser_vars, runner_vars, builder_vars, plan_vars>>

\* run_event_loop, lines 166-180, in the background thread: the loop is made
\* and stored, loop_started is set, and init_connection begins to launch the
\* child process
run_event_loop ==
    /\ \E l \in DOMAIN loops :
          /\ loops[l].stage = "thread"
          /\ loops' = [loops EXCEPT ![l].stage = "launching"]
          /\ _loop' = l
          /\ _stdio_context' = l
    /\ UNCHANGED <<config, _connected, _loop_thread, _session, _read_stream, _write_stream,
                   http_refs, _tools, client_pc, client_call, client_calls, client_return,
                   sent, received>>
    /\ UNCHANGED <<executor_vars, worker_vars, parser_vars, runner_vars, builder_vars, plan_vars>>

\* init_connection, lines 180-184: the child process runs, its streams and
\* the session made on them are stored; the handshake begins
stdio_client ==
    /\ \E l \in DOMAIN loops :
          /\ loops[l].stage = "launching"
          /\ loops[l].running
          /\ loops' = [loops EXCEPT ![l].stage = "initialising", ![l].launched = TRUE]
          /\ _read_stream' = l
          /\ _write_stream' = l
          /\ _session' = l
    /\ UNCHANGED <<config, _connected, _loop, _loop_thread, _stdio_context, http_refs,
                   _tools, client_pc, client_call, client_calls, client_return, sent, received>>
    /\ UNCHANGED <<executor_vars, worker_vars, parser_vars, runner_vars, builder_vars, plan_vars>>

\* init_connection, lines 187-189: the handshake is completed and
\* connection_ready is set
initialize ==
    /\ \E l \in DOMAIN loops :
          /\ loops[l].stage = "initialising"
          /\ loops[l].running
          /\ loops' = [loops EXCEPT ![l].stage = "ready"]
    /\ UNCHANGED <<config, _connected, stdio_refs, http_refs, _tools, client_pc,
                   client_call, client_calls, client_return, sent, received>>
    /\ UNCHANGED <<executor_vars, worker_vars, parser_vars, runner_vars, builder_vars, plan_vars>>

\* init_connection, lines 190-192: launching the child or the handshake
\* raised; the exception is put in connection_error and connection_ready is set
init_connection_failed ==
    /\ \E l \in DOMAIN loops :
          /\ loops[l].stage \in { "launching", "initialising" }
          /\ loops[l].running
          /\ loops' = [loops EXCEPT ![l].stage = "failed"]
    /\ UNCHANGED <<config, _connected, stdio_refs, http_refs, _tools, client_pc,
                   client_call, client_calls, client_return, sent, received>>
    /\ UNCHANGED <<executor_vars, worker_vars, parser_vars, runner_vars, builder_vars, plan_vars>>

\* _connect_stdio, lines 204-206 and 214-215: loop_started.wait(timeout=5)
\* returns; without the event set the connect raises
loop_started_wait ==
    /\ client_pc = "loop_started"
    /\ IF loop_started(client_call.loop)
       THEN client_pc' = "connection_ready" /\ UNCHANGED client_return
       ELSE Return(Raised(client_call.op, "RuntimeError"))
    /\ UNCHANGED <<config, _connected, stdio_refs, http_refs, _tools, loops, client_call,
                   client_calls, sent, received>>
    /\ UNCHANGED <<executor_vars, worker_vars, parser_vars, runner_vars, builder_vars, plan_vars>>

\* _discover_tools over stdio, lines 240-241 with 76-89 and 262-266: the
\* coroutine runs on the loop; without a session it raises, otherwise it
\* sends tools/list and the caller waits for future.result()
discover_stdio(call) ==
    IF _session = Null
    THEN Return(Raised(call.op, "RuntimeError")) /\ UNCHANGED <<sent, received>>
    ELSE /\ client_pc' = "_discover_tools"
         /\ sent' = Append(sent, "tools/list")
         /\ UNCHANGED <<client_return, received>>

\* _connect_stdio, lines 209-215, and connect, line 138:
\* connection_ready.wait(timeout=10) returns with the event set; an error of
\* init_connection is raised, otherwise the tools are discovered
connection_ready_wait ==
    /\ client_pc = "connection_ready"
    /\ connection_ready(client_call.loop)
    /\ UNCHANGED client_call
    /\ IF connection_error(client_call.loop)
       THEN Return(Raised(client_call.op, "RuntimeError")) /\ UNCHANGED <<sent, received>>
       ELSE discover_stdio(client_call)
    /\ UNCHANGED <<config, _connected, stdio_refs, http_refs, _tools, loops, client_calls>>
    /\ UNCHANGED <<executor_vars, worker_vars, parser_vars, runner_vars, builder_vars, plan_vars>>

\* the same lines when connection_ready.wait(timeout=10) returns after ten
\* seconds without the event: connection_error is empty and the connect goes on
connection_ready_timeout ==
    /\ client_pc = "connection_ready"
    /\ ~connection_ready(client_call.loop)
    /\ client_call' = [client_call EXCEPT !.timed_out = TRUE]
    /\ discover_stdio(client_call)
    /\ UNCHANGED <<config, _connected, stdio_refs, http_refs, _tools, loops, client_calls>>
    /\ UNCHANGED <<executor_vars, worker_vars, parser_vars, runner_vars, builder_vars, plan_vars>>

\* the server answers the tools/list of _discover_tools, lines 266-277 and
\* 245-258, and connect sets _connected, line 139; the public call goes on
list_tools_answered ==
    /\ client_pc = "_discover_tools"
    /\ \E response \in ListResponses(ToolLists) :
          IF response.kind = "result"
          THEN \E cached \in { cache_tools(response.tools, 1, EmptyDict) } :
                  /\ _tools' = cached.tools
                  /\ _connected' = TRUE
                  /\ AfterConnect(client_call, cached.tools, sent,
                                  [received EXCEPT !.list = response])
          ELSE /\ Return(Raised(client_call.op,
                                IF response.kind = "error" THEN "McpError" ELSE "Exception"))
               /\ received' = [received EXCEPT !.list = response]
               /\ UNCHANGED <<_tools, _connected, sent>>
    /\ UNCHANGED <<config, stdio_refs, http_refs, loops, client_call, client_calls>>
    /\ UNCHANGED <<executor_vars, worker_vars, parser_vars, runner_vars, builder_vars, plan_vars>>

\* the server answers the tools/call of _call_tool_stdio_async, lines 345-359
call_tool_answered ==
    /\ client_pc = "call_tool"
    /\ \E response \in CallResponses :
          /\ received' = [received EXCEPT !.call = response]
          /\ Return(IF response.kind = "result"
                    THEN Returned(client_call.op, extract_content(response.content))
                    ELSE Raised(client_call.op,
                                IF response.kind = "error" THEN "McpError" ELSE "Exception"))
    /\ UNCHANGED <<config, _connected, stdio_refs, http_refs, _tools, loops, client_call,
                   client_calls, sent>>
    /\ UNCHANGED <<executor_vars, worker_vars, parser_vars, runner_vars, builder_vars, plan_vars>>

\* connect over HTTP, lines 219-235, 243-258, 281-303 and 139: the client is
\* made (a failed health check is only logged), tools/list is posted and the
\* cache is built; the public call goes on
_connect_http ==
    /\ ~_connected
    /\ config.transport = "http"
    /\ \E op \in Operations \ { "disconnect", "__exit__" }, tool_name \in ToolNames :
          /\ op # "call_tool" => tool_name = "a"
          /\ Begin(op, tool_name, Null)
          /\ IF config.url = ""
             THEN /\ Return(Raised(op, "ValueError"))
                  /\ UNCHANGED <<http_refs, _tools, _connected, sent, received>>
             ELSE /\ http_clients' = Append(http_clients, "open")
                  /\ _http_client' = Len(http_clients) + 1
                  /\ \E response \in ListResponses(HttpToolLists) :
                        IF response.kind = "result"
                        THEN \E cached \in { cache_tools(response.tools, 1, EmptyDict) } :
                                /\ _tools' = cached.tools
                                /\ IF cached.raised
                                   THEN /\ Return(Raised(op, "KeyError"))
                                        /\ sent' = Append(sent, "tools/list")
                                        /\ received' = [received EXCEPT !.list = response]
                                        /\ UNCHANGED _connected
                                   ELSE /\ _connected' = TRUE
                                        /\ AfterConnect(client_call', cached.tools,
                                                        Append(sent, "tools/list"),
                                                        [received EXCEPT !.list = response])
                        ELSE /\ Return(Raised(op, "RuntimeError"))
                             /\ sent' = Append(sent, "tools/list")
                             /\ received' = [received EXCEPT !.list = response]
                             /\ UNCHANGED <<_tools, _connected>>
    /\ UNCHANGED <<config, stdio_refs, loops>>
    /\ UNCHANGED <<executor_vars, worker_vars, parser_vars, runner_vars, builder_vars, plan_vars>>

\* connect with another transport, line 135
connect_unsupported ==
    /\ ~_connected
    /\ config.transport \notin { "stdio", "http" }
    /\ \E op \in Operations \ { "disconnect", "__exit__" } :
          /\ Begin(op, "a", Null)
          /\ Return(Raised(op, "ValueError"))
    /\ UNCHANGED <<config, _connected, stdio_refs, http_refs, _tools, loops, sent, received>>
    /\ UNCHANGED <<executor_vars, worker_vars, parser_vars, runner_vars, builder_vars, plan_vars>>

\* disconnect, lines 389-415, called directly or by __exit__, lines 422-424
\* (with or without an exception of the body)
disconnect ==
    /\ \E op \in { "disconnect", "__exit__" } :
          /\ Begin(op, "a", Null)
          /\ Return(Returned(op, PyNone))
    /\ IF _loop # Null
       THEN /\ loops' = [loops EXCEPT ![_loop].running = FALSE]
            /\ _session' = Null
            /\ _stdio_context' = Null
            /\ _read_stream' = Null
            /\ _write_stream' = Null
            /\ _loop' = Null
            /\ _loop_thread' = Null
       ELSE UNCHANGED <<stdio_refs, loops>>
    /\ IF _http_client # Null
       THEN /\ http_clients' = [http_clients EXCEPT ![_http_client] = "closed"]
            /\ _http_client' = Null
       ELSE UNCHANGED http_refs
    /\ _connected' = FALSE
    /\ UNCHANGED <<config, _tools, sent, received>>
    /\ UNCHANGED <<executor_vars, worker_vars, parser_vars, runner_vars, builder_vars, plan_vars>>

ClientNext ==
    \/ Connected
    \/ _connect_stdio
    \/ run_event_loop
    \/ stdio_client
    \/ initialize
    \/ init_connection_failed
    \/ loop_started_wait
    \/ connection_ready_wait
    \/ connection_ready_timeout
    \/ list_tools_answered
    \/ call_tool_answered
    \/ _connect_http
    \/ connect_unsupported
    \/ disconnect

ClientSpec == ClientInit /\ [][ClientNext]_vars

\* the caller's two waits end by themselves, by the event or by the timeout
\* (5 s and 10 s), and the background threads are scheduled; whether and
\* when the tool server answers a request is up to the server
FairClientSpec ==
    /\ ClientSpec
    /\ WF_vars(loop_started_wait)
    /\ WF_vars(connection_ready_wait \/ connection_ready_timeout)
    /\ WF_vars(run_event_loop)
    /\ WF_vars(stdio_client)

--------------------------------------------------------------------------
(* Claims about the MCPClient *)

\* the client is connected over stdio before and after the step
StaysConnected == config.transport = "stdio" /\ _connected /\ _connected'

\* C21: while a stdio client stays connected no child process is launched,
\* the session and the loop it uses stay the ones it has, and the loop of
\* that session keeps running.
C21_PersistentConnection ==
    [][StaysConnected =>
          /\ processes' = processes
          /\ _session' = _session
          /\ _session # Null
          /\ _loop' = _loop
          /\ loops'[_session].running]_vars

\* the handshake of the session the client holds has been completed
HandshakeCompleted == _session # Null /\ loops[_session].stage = "ready"

\* the connection_ready wait of the current or last public call timed out
TimedOut == client_call # EmptyDict /\ client_call.timed_out

\* C22: a connected stdio client has completed its handshake, and a connect
\* whose wait for the handshake timed out waits for nothing more: it has
\* raised and the client is not connected.
C22_HandshakeTimeout ==
    /\ (config.transport = "stdio" /\ _connected) => HandshakeCompleted
    /\ TimedOut => /\ client_pc = "idle"
                   /\ client_return.raised
                   /\ ~_connected

\* the last public call was a connect that raised
ConnectRaised ==
    /\ client_pc = "idle"
    /\ client_return # EmptyDict
    /\ client_return.op = "connect"
    /\ client_return.raised

\* C23: a stdio client is ready only through its first connection attempt,
\* which has neither failed nor been disconnected (a second background
\* thread is started only after the first attempt raised or the client was
\* disconnected), and a connect that raised leaves the client not connected.
C23_StateMachine ==
    /\ (config.transport = "stdio" /\ _connected) =>
           /\ Len(loops) = 1
           /\ loops[1].running
    /\ ConnectRaised => ~_connected

\* the caller's thread takes the step, and a public call returns with it
CallerStep == client_pc' # client_pc \/ client_calls' # client_calls

ReturnStep == CallerStep /\ client_pc' = "idle"

\* the step is one of a call_tool on a client that was connected
CallToolStep == CallerStep /\ _connected /\ client_call'.op = "call_tool"

\* the call_tool returning with the step had sent tools/call, and the
\* server's response is the one received
CallAnswered ==
    /\ ReturnStep
    /\ client_call'.op = "call_tool"
    /\ \/ client_pc = "call_tool"
       \/ Len(sent') > Len(sent) /\ Last(sent') = "tools/call"

\* C24: a call_tool on a connected client that asks for an unknown tool, or
\* whose tools/call is answered by an error response or a transport
\* exception, raises; and no step of a call_tool on a connected client
\* changes _connected, the session, the loop, the HTTP client or the cache.
C24_InvocationFailure ==
    [][/\ (CallAnswered /\ received'.call.kind # "result") => client_return'.raised
       /\ (CallToolStep /\ ReturnStep /\ client_call'.tool_name \notin DOMAIN _tools) =>
             client_return'.raised
       /\ CallToolStep =>
             /\ _connected'
             /\ _session' = _session
             /\ _loop' = _loop
             /\ _http_client' = _http_client
             /\ _tools' = _tools]_vars

\* a call_tool has returned the tool's result on the connection on which the
\* call_tool before it had failed
C24_Witness ==
    /\ client_pc = "idle"
    /\ client_call # EmptyDict
    /\ client_call.op = "call_tool"
    /\ client_call.after_failure
    /\ ~client_return.raised
    /\ _connected

\* how often tools/list has been sent
Discoveries == Cardinality({ i \in DOMAIN sent : sent[i] = "tools/list" })

\* the tools of a tools/list result by name: each name of the list with the
\* description and the schema the list gives for it (the last, if it gives
\* several)
Listing(tools) ==
    [name \in { tools[i].name : i \in DOMAIN tools } |->
        LET i == CHOOSE k \in DOMAIN tools :
                    /\ tools[k].name = name
                    /\ \A j \in DOMAIN tools : tools[j].name = name => j <= k
        IN  MCPTool(name, Get(tools[i], "description", ""), Get(tools[i], "inputSchema", "{}"))]

\* C25: each connection attempt sends tools/list at most once; the step that
\* makes the client connected has received a tools/list result and leaves
\* as the cache exactly the tools of that result by name; on a connected
\* client no step sends tools/list or changes the cache, list_tools returns
\* the cached tools, and a call_tool whose name is not in the cache raises
\* without sending tools/call.
C25_DiscoveryCache ==
    [][/\ Discoveries' <= Len(loops') + Len(http_clients')
       /\ (~_connected /\ _connected') =>
             /\ Discoveries' >= 1
             /\ received'.list.kind = "result"
             /\ _tools' = Listing(received'.list.tools)
       /\ _connected =>
             /\ Discoveries' = Discoveries
             /\ _tools' = _tools
       /\ (_connected /\ ReturnStep /\ client_call'.op = "list_tools") =>
             /\ client_return' = Returned("list_tools", ToolsValue(_tools))
             /\ sent' = sent
       /\ (_connected' /\ ReturnStep /\ client_call'.op = "call_tool"
              /\ client_call'.tool_name \notin DOMAIN _tools') =>
             /\ client_return'.raised
             /\ sent' = sent \/ sent' = Append(sent, "tools/list")]_vars

\* on a client connected by its second discovery, a call_tool for a name
\* that is not cached has raised
C25_Witness ==
    /\ _connected
    /\ client_pc = "idle"
    /\ client_call.op = "call_tool"
    /\ client_call.tool_name \notin DOMAIN _tools
    /\ client_return.raised
    /\ Discoveries = 2

\* the text of the first textual item of a content array, or the array if
\* it has no textual item
FirstText(content) ==
    LET texts == { i \in 1..Len(content) : "text" \in DOMAIN content[i] }
    IN  IF texts # {}
        THEN PyStr(content[CHOOSE i \in texts : \A j \in texts : i <= j].text)
        ELSE PyList(content)

\* the last public call was a call_tool that returned what it made of a
\* tools/call result
CallToolReturned ==
    /\ client_pc = "idle"
    /\ client_return # EmptyDict
    /\ client_return.op = "call_tool"
    /\ ~client_return.raised

\* C26: on both transports call_tool returns the text of the first textual
\* item of the content array of the tools/call result, and the array itself
\* if it has no textual item.
C26_ResultExtraction ==
    CallToolReturned => client_return.value = FirstText(received.call.content)

\* the caller waits for the answer to a tools/list or tools/call it sent over stdio
AwaitingAnswer == client_pc \in { "_discover_tools", "call_tool" }

\* C27: a caller that waits for the answer to a request sent over stdio
\* gets back from its call, whether or not the tool server answers.
C27_CallDeadline == AwaitingAnswer ~> client_pc = "idle"

\* disconnect or __exit__ returns with the step
DisconnectStep == ReturnStep /\ client_call'.op \in { "disconnect", "__exit__" }

\* the client holds no loop, thread, session, stream or HTTP client
Released ==
    /\ _loop = Null
    /\ _loop_thread = Null
    /\ _session = Null
    /\ _stdio_context = Null
    /\ _read_stream = Null
    /\ _write_stream = Null
    /\ _http_client = Null

\* C28: when disconnect or __exit__ returns, on whatever client and whether
\* or not the body of the with statement raised, it has not raised, the
\* client is not connected and holds no loop, thread, session, stream or
\* HTTP client, the background thread it held has stopped its loop, and the
\* HTTP client it held is closed.
C28_Disconnect ==
    [][DisconnectStep =>
          /\ ~client_return'.raised
          /\ ~_connected'
          /\ Released'
          /\ _loop_thread # Null => ~loops'[_loop_thread].running
          /\ _http_client # Null => http_clients'[_http_client] = "closed"]_vars

--------------------------------------------------------------------------
(* Part IV: the test harness (core/framework/testing): categorizer.py,    *)
(* executor.py and parallel.py                                             *)

\* TestResult(test_id=..., passed=...) with the defaults of its other
\* fields: no message, no stack trace, no category, no logs
TestResult(test_id, passed) ==
    [test_id |-> test_id, passed |-> passed, duration_ms |-> 0, error_message |-> "",
     stack_trace |-> "", error_category |-> None, runtime_logs |-> << >>]

LOGIC_ERROR == "logic_error"

IMPLEMENTATION_ERROR == "implementation_error"

EDGE_CASE == "edge_case"

ErrorCategory == {LOGIC_ERROR, IMPLEMENTATION_ERROR, EDGE_CASE}

\* lines 25-34, categorizer.py, in lower case as re.IGNORECASE compares them
LOGIC_ERROR_PATTERNS ==
    << <<[gap |-> "", text |-> "goal not achieved"]>>,
       <<[gap |-> "", text |-> "constraint violated"], [gap |-> ":?\\s*", text |-> "core"]>>,
       <<[gap |-> "", text |-> "fundamental assumption"]>>,
       <<[gap |-> "", text |-> "success criteria mismatch"]>>,
       <<[gap |-> "", text |-> "criteria not met"]>>,
       <<[gap |-> "", text |-> "expected behavior incorrect"]>>,
       <<[gap |-> "", text |-> "specification error"]>>,
       <<[gap |-> "", text |-> "requirement mismatch"]>> >>

\* lines 37-58, categorizer.py, in lower case as re.IGNORECASE compares them
IMPLEMENTATION_ERROR_PATTERNS ==
    << <<[gap |-> "", text |-> "typeerror"]>>,
       <<[gap |-> "", text |-> "attributeerror"]>>,
       <<[gap |-> "", text |-> "keyerror"]>>,
       <<[gap |-> "", text |-> "indexerror"]>>,
       <<[gap |-> "", text |-> "valueerror"]>>,
       <<[gap |-> "", text |-> "nameerror"]>>,
       <<[gap |-> "", text |-> "importerror"]>>,
       <<[gap |-> "", text |-> "modulenotfounderror"]>>,
       <<[gap |-> "", text |-> "runtimeerror"]>>,
       <<[gap |-> "", text |-> "nullpointerexception"]>>,
       <<[gap |-> "", text |-> "nonetype"], [gap |-> ".*", text |-> "has no attribute"]>>,
       <<[gap |-> "", text |-> "tool call failed"]>>,
       <<[gap |-> "", text |-> "node execution error"]>>,
       <<[gap |-> "", text |-> "agent execution failed"]>>,
       <<[gap |-> "", text |-> "assertion"], [gap |-> ".*", text |-> "failed"]>>,
       <<[gap |-> "", text |-> "assertionerror"]>>,
       <<[gap |-> "", text |-> "expected"], [gap |-> ".*", text |-> "but got"]>>,
       <<[gap |-> "", text |-> "unexpected"], [gap |-> ".*", text |-> "type"]>>,
       <<[gap |-> "", text |-> "missing required"]>>,
       <<[gap |-> "", text |-> "invalid"], [gap |-> ".*", text |-> "argument"]>> >>

\* lines 61-79, categorizer.py, in lower case as re.IGNORECASE compares them
EDGE_CASE_PATTERNS ==
    << <<[gap |-> "", text |-> "boundary condition"]>>,
       <<[gap |-> "", text |-> "timeout"]>>,
       <<[gap |-> "", text |-> "connection"], [gap |-> ".*", text |-> "timeout"]>>,
       <<[gap |-> "", text |-> "request"], [gap |-> ".*", text |-> "timeout"]>>,
       <<[gap |-> "", text |-> "unexpected format"]>>,
       <<[gap |-> "", text |-> "unexpected response"]>>,
       <<[gap |-> "", text |-> "rare input"]>>,
       <<[gap |-> "", text |-> "empty"], [gap |-> ".*", text |-> "result"]>>,
       <<[gap |-> "", text |-> "null"], [gap |-> ".*", text |-> "value"]>>,
       <<[gap |-> "", text |-> "empty"], [gap |-> ".*", text |-> "response"]>>,
       <<[gap |-> "", text |-> "no"], [gap |-> ".*", text |-> "results"]>>,
       <<[gap |-> "", text |-> "rate"], [gap |-> ".*", text |-> "limit"]>>,
       <<[gap |-> "", text |-> "quota"], [gap |-> ".*", text |-> "exceeded"]>>,
       <<[gap |-> "", text |-> "retry"], [gap |-> ".*", text |-> "exhausted"]>>,
       <<[gap |-> "", text |-> "unicode"], [gap |-> ".*", text |-> "error"]>>,
       <<[gap |-> "", text |-> "encoding"], [gap |-> ".*", text |-> "error"]>>,
       <<[gap |-> "", text |-> "special"], [gap |-> ".*", text |-> "character"]>> >>

\* the letters re.IGNORECASE folds
UpperCase == "ABCDEFGHIJKLMNOPQRSTUVWXYZ"

LowerCase == "abcdefghijklmnopqrstuvwxyz"

lower_letter(c, i) == IF i = 0 THEN c ELSE At(LowerCase, i)

RECURSIVE lower(_)
\* the text with its upper-case letters folded, half by half
lower(s) ==
    IF s = "" THEN ""
    ELSE IF Len(s) = 1 THEN lower_letter(s, find(UpperCase, s, 1))
    ELSE lower(SubSeq(s, 1, Len(s) \div 2)) \o lower(SubSeq(s, Len(s) \div 2 + 1, Len(s)))

\* the positions where the next part of a pattern may start when the part
\* before it ended before position a: at once, after any characters of the
\* line (.*), or after an optional colon and any whitespace (:?\s*)
Reach(text, a, gap) ==
    IF gap = "" THEN {a}
    ELSE IF gap = ".*"
    THEN { j \in a..(Len(text) + 1) : \A k \in a..(j - 1) : At(text, k) # "\n" }
    ELSE { j \in a..(Len(text) + 1) :
             \E c \in {a} \cup (IF At(text, a) = ":" THEN {a + 1} ELSE {}) :
                 c <= j /\ j <= SkipSpace(text, c) }

RECURSIVE matches_at(_, _, _, _)
\* the parts of the pattern from the k-th on match the text from position i
matches_at(text, i, pattern, k) ==
    /\ StartsAt(text, i, pattern[k].text)
    /\ \/ k = Len(pattern)
       \/ /\ k < Len(pattern)
          /\ \E j \in Reach(text, i + Len(pattern[k].text), pattern[k + 1].gap) :
                matches_at(text, j, pattern, k + 1)

\* pattern.search(error_text) for one of the compiled patterns, some
\* pattern of the list
search(patterns, text) ==
    \E p \in DOMAIN patterns : \E i \in 1..Len(text) : matches_at(text, i, patterns[p], 1)

RECURSIVE join(_)
\* " ".join(parts)
join(parts) ==
    IF parts = << >> THEN ""
    ELSE IF Len(parts) = 1 THEN parts[1]
    ELSE parts[1] \o " " \o join(Tail(parts))

RECURSIVE log_messages(_)
\* the messages of the logs of level ERROR, CRITICAL or WARNING, lines 185-187
log_messages(logs) ==
    IF logs = << >> THEN << >>
    ELSE (IF logs[1].level \in {"ERROR", "CRITICAL", "WARNING"} THEN <<logs[1].msg>> ELSE << >>)
         \o log_messages(Tail(logs))

\* ErrorCategorizer._get_error_text, lines 174-189
_get_error_text(r) ==
    join((IF r.error_message # "" THEN <<r.error_message>> ELSE << >>)
         \o (IF r.stack_trace # "" THEN <<r.stack_trace>> ELSE << >>)
         \o log_messages(r.runtime_logs))

\* the category of an error text, lines 109-126: logic patterns first, then
\* implementation, then edge case, implementation error when none matches
category_of(text) ==
    IF search(LOGIC_ERROR_PATTERNS, text) THEN LOGIC_ERROR
    ELSE IF search(IMPLEMENTATION_ERROR_PATTERNS, text) THEN IMPLEMENTATION_ERROR
    ELSE IF search(EDGE_CASE_PATTERNS, text) THEN EDGE_CASE
    ELSE IMPLEMENTATION_ERROR

\* ErrorCategorizer.categorize, lines 93-126
categorize(r) ==
    IF r.passed THEN None ELSE category_of(lower(_get_error_text(r)))

\* what a test's code does when TestExecutor.execute compiles and runs it
Passing == [does |-> "passes", type |-> "", message |-> ""]

Failing(type, message) == [does |-> "raises", type |-> type, message |-> message]

SyntaxError == [does |-> "SyntaxError", type |-> "SyntaxError", message |-> "invalid syntax"]

FunctionMissing == [does |-> "no function", type |-> "", message |-> ""]

\* traceback.format_exc() for an exception of the test code
format_exc(type, message) ==
    "Traceback (most recent call last):\n  File \"executor.py\", line 267, in execute\n"
    \o "    test_func(*call_args)\n  File \"<test:t>\", line 2, in t\n"
    \o type \o (IF message = "" THEN "" ELSE ": " \o message) \o "\n"

\* TestExecutor._create_failure_result, lines 355-377
_create_failure_result(test_id, elapsed, error_message, stack_trace) ==
    [[TestResult(test_id, FALSE) EXCEPT !.duration_ms = elapsed,
                                        !.error_message = error_message,
                                        !.stack_trace = stack_trace]
        EXCEPT !.error_category =
            categorize([TestResult(test_id, FALSE) EXCEPT !.error_message = error_message,
                                                          !.stack_trace = stack_trace])]

\* TestExecutor._create_error_result, lines 379-400
_create_error_result(test_id, elapsed, error_message, stack_trace) ==
    [TestResult(test_id, FALSE) EXCEPT !.duration_ms = elapsed,
                                       !.error_message = error_message,
                                       !.stack_trace = stack_trace,
                                       !.error_category = IMPLEMENTATION_ERROR]

\* TestExecutor.execute, lines 194-301, for a test whose code does as said
\* and takes the time elapsed
TestExecutor_execute(test_id, code, elapsed) ==
    IF code.does = "SyntaxError"
    THEN _create_error_result(test_id, elapsed,
                              "Test code syntax error: " \o code.message,
                              format_exc(code.type, code.message))
    ELSE IF code.does = "no function"
    THEN _create_error_result(test_id, elapsed,
                              "Test function 't' not found in test code", "")
    ELSE IF code.does = "passes"
    THEN [TestResult(test_id, TRUE) EXCEPT !.duration_ms = elapsed]
    ELSE IF code.type = "AssertionError"
    THEN _create_failure_result(test_id, elapsed,
                                IF code.message = "" THEN "Assertion failed" ELSE code.message,
                                format_exc(code.type, code.message))
    ELSE _create_failure_result(test_id, elapsed, code.type \o ": " \o code.message,
                                format_exc(code.type, code.message))

\* num_workers ranges over 0..MaxWorkers and the number of tests over
\* 0..MaxTests
MaxWorkers == 2

MaxTests == 2

\* the thread that called run_all
Caller == 0

\* ParallelConfig.timeout_per_test, line 66, in the time unit of the model:
\* a test within its budget takes 1, a slow one timeout_per_test + 1
timeout_per_test == 2

\* what running a test's code does: it returns within the budget, returns
\* after it, never returns, or raises a TimeoutError that execute cannot
\* turn into a result (formatting it raises again, lines 287-301)
Behaviours == {"returns", "slow", "never", "TimeoutError"}

Returning == {"returns", "slow"}

\* the code of a test that passes or fails
test_code(passed) == IF passed THEN Passing ELSE Failing("AssertionError", "")

\* TestExecutor.execute for the two test codes of a run, computed once
ExecuteOutcome == [passed \in BOOLEAN |-> TestExecutor_execute(0, test_code(passed), 0)]

\* executor.execute(test, agent), lines 58 and 240, for a test that returns
execute_test(t) ==
    [ExecuteOutcome[tests[t]] EXCEPT
        !.test_id = t,
        !.duration_ms = IF behaviour[t] = "slow" THEN timeout_per_test + 1 ELSE 1]

RECURSIVE longest_duration(_)
\* the duration of the longest test
longest_duration(rs) ==
    IF rs = << >> THEN 0
    ELSE IF rs[1].duration_ms > longest_duration(Tail(rs)) THEN rs[1].duration_ms
    ELSE longest_duration(Tail(rs))

RECURSIVE total_duration(_)
\* sum(r.duration_ms for r in results), line 333
total_duration(rs) ==
    IF rs = << >> THEN 0 ELSE rs[1].duration_ms + total_duration(Tail(rs))

\* _create_suite_result, lines 325-342
_create_suite_result(rs) ==
    [total |-> Len(rs),
     passed |-> Cardinality({ i \in DOMAIN rs : rs[i].passed }),
     failed |-> Len(rs) - Cardinality({ i \in DOMAIN rs : rs[i].passed }),
     results |-> rs,
     duration_ms |-> total_duration(rs)]

\* a future as submit makes it
Pending == [state |-> "pending", worker |-> Caller, exception |-> ""]

\* one execute call of a TestExecutor
Execution(test, thread, agent) == [test |-> test, thread |-> thread, agent |-> agent]

\* _thread_local.agent read as if _thread_local were an ordinary module
\* global: the agent stored last
module_agent(local, w) == CHOOSE a \in Range(local) : \A b \in Range(local) : b <= a

\* _thread_local.agent in thread w, line 58
thread_agent(local, w) == local[w]

\* a run without storage
NoStorage == [given |-> FALSE, calls |-> << >>]

\* storage.update_test(test) after test.record_result(passed), and
\* storage.save_result(test_id, result)
StorageCall(call, test_id, passed) == [call |-> call, test_id |-> test_id, passed |-> passed]

RECURSIVE save_results_only(_)
\* the storage calls of a run_all that saves each result and leaves the
\* Test objects as they were
save_results_only(rs) ==
    IF rs = << >> THEN << >>
    ELSE <<StorageCall("save_result", rs[1].test_id, rs[1].passed)>>
         \o save_results_only(Tail(rs))

RECURSIVE save_results(_)
\* the storage calls of run_all for the results, lines 166-178
save_results(rs) ==
    IF rs = << >> THEN << >>
    ELSE <<StorageCall("update_test", rs[1].test_id, rs[1].passed),
           StorageCall("save_result", rs[1].test_id, rs[1].passed)>>
         \o save_results(Tail(rs))

\* the storage after run_all saved the results, line 166
saved(st, rs) == IF st.given THEN [st EXCEPT !.calls = st.calls \o save_results(rs)] ELSE st

\* _run_sequential without its fail-fast return: every test is run
all_results ==
    [i \in DOMAIN tests |-> execute_test(i)]

\* the tests at which the loop of _run_sequential ends early: a test that
\* does not return a result, or a failed one under fail_fast
Stops ==
    { i \in DOMAIN tests : behaviour[i] \notin Returning \/ (fail_fast /\ ~tests[i]) }

FirstStop == IF Stops = {} THEN 0 ELSE CHOOSE i \in Stops : \A j \in Stops : i <= j

\* _run_sequential, lines 239-250: the results of the tests run in order,
\* up to and including the first failed one under fail_fast, and up to a
\* test that does not return
sequential_results ==
    [i \in 1..(IF FirstStop = 0 THEN Len(tests)
               ELSE IF behaviour[FirstStop] \in Returning THEN FirstStop
               ELSE FirstStop - 1) |-> execute_test(i)]

\* how _run_sequential ends: it returns, it stays in a test that never
\* returns, or the test's exception leaves run_all
sequential_end ==
    IF FirstStop = 0 THEN "done"
    ELSE IF behaviour[FirstStop] \in Returning THEN "done"
    ELSE IF behaviour[FirstStop] = "never" THEN "blocked"
    ELSE "raised"

\* the tests _run_sequential called execute for
sequential_executed ==
    IF FirstStop = 0 THEN DOMAIN tests ELSE 1..FirstStop

\* the pool is broken once an initializer failed
broken == \E w \in DOMAIN threads : threads[w] = "failed"

\* the orders in which a set of futures can be iterated
Orders(S) ==
    { p \in [1..Cardinality(S) -> S] : \A i, j \in 1..Cardinality(S) : p[i] = p[j] => i = j }

\* the result the as_completed loop appends for a finished future, lines
\* 284-316
collected(t) ==
    IF futures[t].exception = "" THEN execute_test(t)
    ELSE IF futures[t].exception = "TimeoutError"
    THEN [TestResult(t, FALSE) EXCEPT !.duration_ms = timeout_per_test,
                                      !.error_message = "Test timed out"]
    ELSE [TestResult(t, FALSE) EXCEPT
            !.error_message = "Execution error: " \o futures[t].exception]

RunnerInit ==
    /\ ExecutorIdle
    /\ WorkerIdle
    /\ ParserIdle
    /\ ClientIdle
    /\ BuilderIdle
    /\ num_workers \in 0..MaxWorkers
    /\ fail_fast \in BOOLEAN
    /\ tests \in UNION { [1..n -> BOOLEAN] : n \in 0..MaxTests }
    /\ behaviour = [t \in DOMAIN tests |-> "returns"]
    /\ agent_factory = "creates"
    /\ storage = NoStorage
    /\ runner_pc = "idle"
    /\ futures = << >>
    /\ executed = {}
    /\ completed = << >>
    /\ waiter = << >>
    /\ work_queue = << >>
    /\ idle_semaphore = 0
    /\ threads = << >>
    /\ agents = << >>
    /\ _thread_local = << >>
    /\ results = << >>
    /\ suite = EmptyDict

\* the runs of the harness at large: one of the tests may be slow, hang or
\* raise, the agent factory may raise, and a storage may be given
HarnessInit ==
    /\ ExecutorIdle
    /\ WorkerIdle
    /\ ParserIdle
    /\ ClientIdle
    /\ BuilderIdle
    /\ num_workers \in 0..MaxWorkers
    /\ fail_fast \in BOOLEAN
    /\ tests \in UNION { [1..n -> BOOLEAN] : n \in 0..MaxTests }
    /\ behaviour \in [DOMAIN tests -> Behaviours]
    /\ \A t \in DOMAIN tests : behaviour[t] # "returns" => tests[t]
    /\ \A t, u \in DOMAIN tests : behaviour[t] # "returns" /\ behaviour[u] # "returns" => t = u
    /\ agent_factory \in {"creates", "raises"}
    /\ storage \in {NoStorage, [NoStorage EXCEPT !.given = TRUE]}
    /\ runner_pc = "idle"
    /\ futures = << >>
    /\ executed = {}
    /\ completed = << >>
    /\ waiter = << >>
    /\ work_queue = << >>
    /\ idle_semaphore = 0
    /\ threads = << >>
    /\ agents = << >>
    /\ _thread_local = << >>
    /\ results = << >>
    /\ suite = EmptyDict

\* run_all, lines 147-181, with _run_sequential, lines 226-250: without
\* tests it returns an empty suite; with at most one worker the caller
\* makes one agent, runs the tests in order, saves the results and returns;
\* otherwise the pool is made and the caller begins to submit
run_all ==
    /\ runner_pc = "idle"
    /\ IF Len(tests) = 0
       THEN /\ suite' = _create_suite_result(<< >>)
            /\ runner_pc' = "done"
            /\ UNCHANGED <<agents, executed, results, storage>>
       ELSE IF num_workers <= 1 /\ agent_factory = "raises"
       THEN /\ runner_pc' = "raised"
            /\ UNCHANGED <<agents, executed, results, storage, suite>>
       ELSE IF num_workers <= 1
       THEN /\ agents' = Append(agents, Caller)
            /\ results' = sequential_results
            /\ executed' = { Execution(i, Caller, Len(agents) + 1) : i \in sequential_executed }
            /\ runner_pc' = sequential_end
            /\ IF sequential_end = "done"
               THEN /\ storage' = saved(storage, sequential_results)
                    /\ suite' = _create_suite_result(sequential_results)
               ELSE UNCHANGED <<storage, suite>>
       ELSE /\ runner_pc' = "submit"
            /\ UNCHANGED <<agents, executed, results, storage, suite>>
    /\ UNCHANGED <<num_workers, fail_fast, tests, behaviour, agent_factory, futures, completed,
                   waiter, work_queue, idle_semaphore, threads, _thread_local>>
    /\ UNCHANGED <<executor_vars, worker_vars, parser_vars, client_vars, builder_vars, plan_vars>>

\* executor.submit(_run_single_test, test, timeout), lines 277-280: on a
\* broken pool submit raises and the exception leaves the with block;
\* otherwise the work item is queued, an idle worker is claimed if the
\* semaphore has one, otherwise a thread is started while there are fewer
\* than max_workers
submit ==
    /\ runner_pc = "submit"
    /\ IF broken
       THEN /\ runner_pc' = "unwinding"
            /\ UNCHANGED <<futures, work_queue, idle_semaphore, threads>>
       ELSE /\ futures' = Append(futures, Pending)
            /\ work_queue' = Append(work_queue, Len(futures) + 1)
            /\ IF idle_semaphore > 0
               THEN idle_semaphore' = idle_semaphore - 1 /\ UNCHANGED threads
               ELSE /\ threads' = IF Len(threads) < num_workers
                                  THEN Append(threads, "starting") ELSE threads
                    /\ UNCHANGED idle_semaphore
            /\ runner_pc' = IF Len(futures) + 1 = Len(tests) THEN "as_completed" ELSE "submit"
    /\ UNCHANGED <<num_workers, fail_fast, tests, behaviour, agent_factory, storage, executed,
                   completed, waiter, agents, _thread_local, results, suite>>
    /\ UNCHANGED <<executor_vars, worker_vars, parser_vars, client_vars, builder_vars, plan_vars>>

\* _init_worker, lines 29-40, the initializer of a started thread: the
\* factory makes an agent, stored in the thread's _thread_local; if the
\* factory raises, the thread ends, the pool is broken and every queued
\* future fails with BrokenThreadPool
_init_worker ==
    /\ \E w \in DOMAIN threads :
          /\ threads[w] = "starting"
          /\ IF agent_factory = "creates"
             THEN /\ agents' = Append(agents, w)
                  /\ _thread_local' = (w :> (Len(agents) + 1)) @@ _thread_local
                  /\ threads' = [threads EXCEPT ![w] = "waiting"]
                  /\ UNCHANGED <<futures, work_queue, completed, waiter>>
             ELSE /\ threads' = [threads EXCEPT ![w] = "failed"]
                  /\ futures' = [f \in DOMAIN futures |->
                                    IF futures[f].state = "pending"
                                    THEN [futures[f] EXCEPT !.state = "finished",
                                                            !.exception = "BrokenThreadPool"]
                                    ELSE futures[f]]
                  /\ work_queue' = << >>
                  /\ completed' = completed \o work_queue
                  /\ waiter' = IF runner_pc = "collect" THEN waiter \o work_queue ELSE waiter
                  /\ UNCHANGED <<agents, _thread_local>>
    /\ UNCHANGED <<num_workers, fail_fast, tests, behaviour, agent_factory, storage, runner_pc,
                   executed, idle_semaphore, results, suite>>
    /\ UNCHANGED <<executor_vars, worker_vars, parser_vars, client_vars, builder_vars, plan_vars>>

\* a worker thread takes the next work item from the queue
work_queue_get ==
    /\ work_queue # << >>
    /\ \E w \in DOMAIN threads :
          /\ threads[w] = "waiting"
          /\ threads' = [threads EXCEPT ![w] = "running"]
          /\ futures' = [futures EXCEPT ![Head(work_queue)] =
                            [state |-> "running", worker |-> w, exception |-> ""]]
    /\ work_queue' = Tail(work_queue)
    /\ UNCHANGED <<num_workers, fail_fast, tests, behaviour, agent_factory, storage, runner_pc,
                   executed, completed, waiter, idle_semaphore, agents, _thread_local, results,
                   suite>>
    /\ UNCHANGED <<executor_vars, worker_vars, parser_vars, client_vars, builder_vars, plan_vars>>

\* _run_single_test, lines 43-58, in the worker thread that took the test,
\* for a test that ends: the test is executed against _thread_local.agent,
\* the future is finished with the result or with the exception, a waiter
\* of as_completed is told, and the worker counts as idle
_run_single_test ==
    /\ \E w \in DOMAIN threads, t \in DOMAIN futures :
          /\ threads[w] = "running"
          /\ futures[t] = [state |-> "running", worker |-> w, exception |-> ""]
          /\ behaviour[t] # "never"
          /\ executed' = executed \cup { Execution(t, w, thread_agent(_thread_local, w)) }
          /\ futures' = [futures EXCEPT ![t].state = "finished",
                                        ![t].exception = IF behaviour[t] = "TimeoutError"
                                                         THEN "TimeoutError" ELSE ""]
          /\ completed' = Append(completed, t)
          /\ waiter' = IF runner_pc = "collect" THEN Append(waiter, t) ELSE waiter
          /\ threads' = [threads EXCEPT ![w] = "waiting"]
    /\ idle_semaphore' = idle_semaphore + 1
    /\ UNCHANGED <<num_workers, fail_fast, tests, behaviour, agent_factory, storage, runner_pc,
                   work_queue, agents, _thread_local, results, suite>>
    /\ UNCHANGED <<executor_vars, worker_vars, parser_vars, client_vars, builder_vars, plan_vars>>

\* as_completed(futures), line 282, when the loop asks for the first
\* future: the futures already finished are yielded first, in the order
\* of a set; a waiter is installed for the others
as_completed ==
    /\ runner_pc = "as_completed"
    /\ waiter' \in Orders({ t \in DOMAIN futures : futures[t].state = "finished" })
    /\ runner_pc' = "collect"
    /\ UNCHANGED <<num_workers, fail_fast, tests, behaviour, agent_factory, storage, futures,
                   executed, completed, work_queue, idle_semaphore, threads, agents,
                   _thread_local, results, suite>>
    /\ UNCHANGED <<executor_vars, worker_vars, parser_vars, client_vars, builder_vars, plan_vars>>

\* one round of the loop over as_completed, lines 282-321: the result of
\* the next finished future is appended, or the result made for its
\* exception; under fail_fast a failed result cancels the queued futures
\* and ends the loop; the loop also ends with the last future
future_result ==
    /\ runner_pc = "collect"
    /\ waiter # << >>
    /\ results' = Append(results, collected(Head(waiter)))
    /\ IF fail_fast /\ ~collected(Head(waiter)).passed
       THEN /\ work_queue' = << >>
            /\ futures' = [f \in DOMAIN futures |->
                              IF futures[f].state = "pending"
                              THEN [futures[f] EXCEPT !.state = "cancelled"]
                              ELSE futures[f]]
            /\ waiter' = << >>
            /\ runner_pc' = "shutdown"
       ELSE /\ runner_pc' = IF Len(results) + 1 = Len(tests) THEN "shutdown" ELSE "collect"
            /\ waiter' = Tail(waiter)
            /\ UNCHANGED <<work_queue, futures>>
    /\ UNCHANGED <<num_workers, fail_fast, tests, behaviour, agent_factory, storage, executed,
                   completed, idle_semaphore, threads, agents, _thread_local, suite>>
    /\ UNCHANGED <<executor_vars, worker_vars, parser_vars, client_vars, builder_vars, plan_vars>>

\* leaving the with block, line 275, and run_all's end, lines 166-181:
\* shutdown(wait=True) joins the worker threads, which end once they have
\* initialised, finished their test and found the queue empty; then the
\* results are saved and the suite is returned, or the exception of submit
\* leaves run_all
run_all_return ==
    /\ runner_pc \in {"shutdown", "unwinding"}
    /\ work_queue = << >>
    /\ \A w \in DOMAIN threads : threads[w] \in {"waiting", "failed"}
    /\ threads' = [w \in DOMAIN threads |->
                      IF threads[w] = "waiting" THEN "exited" ELSE threads[w]]
    /\ IF runner_pc = "shutdown"
       THEN /\ storage' = saved(storage, results)
            /\ suite' = _create_suite_result(results)
            /\ runner_pc' = "done"
       ELSE /\ runner_pc' = "raised"
            /\ UNCHANGED <<storage, suite>>
    /\ UNCHANGED <<num_workers, fail_fast, tests, behaviour, agent_factory, futures, executed,
                   completed, waiter, work_queue, idle_semaphore, agents, _thread_local,
                   results>>
    /\ UNCHANGED <<executor_vars, worker_vars, parser_vars, client_vars, builder_vars, plan_vars>>

RunnerNext ==
    \/ run_all
    \/ submit
    \/ _init_worker
    \/ work_queue_get
    \/ _run_single_test
    \/ as_completed
    \/ future_result
    \/ run_all_return

RunnerSpec == RunnerInit /\ [][RunnerNext]_vars

HarnessSpec == HarnessInit /\ [][RunnerNext]_vars

\* the agents the factory made in thread w
AgentsOf(w) == { a \in DOMAIN agents : agents[a] = w }

\* C29: under every interleaving of the workers, each worker thread calls
\* the agent factory exactly once, at its initialisation and before it runs
\* a test; every test a worker thread runs is run against the agent that
\* thread made, so no agent is used by two threads
C29_WorkerIsolation ==
    /\ \A w \in DOMAIN threads :
          Cardinality(AgentsOf(w)) = IF threads[w] = "starting" THEN 0 ELSE 1
    /\ \A e \in executed : e.agent \in AgentsOf(e.thread)
    /\ \A e, f \in executed : e.agent = f.agent => e.thread = f.thread

\* two worker threads have each run a test, each with the agent it made
C29_Witness ==
    \E e, f \in executed :
        /\ e.thread # Caller /\ f.thread # e.thread /\ f.thread # Caller
        /\ e.test # f.test /\ e.agent # f.agent

\* run_all has returned from a run that had tests
Ran == runner_pc = "done" /\ Len(tests) > 0

\* C30: a run with at most one worker makes exactly one agent; a parallel
\* run of N workers with at least N tests makes exactly N agents, under
\* every scheduling
C30_AgentCount ==
    Ran =>
        /\ num_workers <= 1 => Len(agents) = 1
        /\ (num_workers > 1 /\ Len(tests) >= num_workers) => Len(agents) = num_workers

\* the worker threads and the caller are scheduled by the operating system:
\* a step that stays possible is taken
FairRunnerSpec == RunnerSpec /\ WF_vars(RunnerNext)

FairHarnessSpec == HarnessSpec /\ WF_vars(RunnerNext)

\* a non-passing result has been collected
FailureCollected == \E i \in DOMAIN results : ~results[i].passed

\* C31: with fail_fast, in sequential and in parallel mode, the collected
\* results hold at most one non-passing result and it is the last one:
\* nothing is collected after it; once it is collected no test waits in
\* the queue or as a pending future, results of tests that still finish
\* are not collected, and run_all returns
C31_FailFast ==
    /\ [](fail_fast =>
            /\ \A i \in DOMAIN results : ~results[i].passed => i = Len(results)
            /\ FailureCollected =>
                  /\ work_queue = << >>
                  /\ \A t \in DOMAIN futures : futures[t].state # "pending"
                  /\ runner_pc \in {"shutdown", "done"})
    /\ [][fail_fast /\ FailureCollected => results' = results]_vars
    /\ (fail_fast /\ FailureCollected ~> runner_pc = "done")

\* a parallel fail-fast run returned after a failure, with another test
\* finished but not collected
C31_Witness ==
    /\ fail_fast /\ FailureCollected /\ runner_pc = "done" /\ num_workers > 1
    /\ \E u \in DOMAIN futures :
          /\ futures[u].state = "finished"
          /\ \A i \in DOMAIN results : results[i].test_id # u

\* the tests whose execution exceeds the per-test budget
OverBudget == { t \in DOMAIN tests : behaviour[t] \in {"slow", "never"} }

\* C32: in sequential and in parallel mode, the result collected for a test
\* whose execution exceeds timeout_per_test is a non-passing result with the
\* message 'Test timed out', and a run_all call returns even if a test
\* never finishes
C32_PerTestTimeout ==
    /\ [](\A i \in DOMAIN results :
            results[i].test_id \in OverBudget =>
                ~results[i].passed /\ results[i].error_message = "Test timed out")
    /\ (runner_pc = "idle" ~> runner_pc \in {"done", "raised"})

\* C33: every non-passing result collected by run_all, the results made
\* for timeouts and execution errors included, carries exactly one of the
\* three error categories, and a passing result carries none
C33_CategorisationClosure ==
    \A i \in DOMAIN results :
        IF results[i].passed
        THEN results[i].error_category = None
        ELSE results[i].error_category \in ErrorCategory

\* the calls made to the storage for a test
CallsFor(call, t) ==
    { k \in DOMAIN storage.calls :
        storage.calls[k].call = call /\ storage.calls[k].test_id = t }

\* C34: when run_all returns with a storage, every result of the returned
\* suite has exactly one save_result call and exactly one update of its
\* Test, made before it and with the result's passed flag; tests without a
\* result, dropped by fail-fast, have neither; nothing is saved before
\* run_all returns, without a storage, or when run_all does not return;
\* without tests nothing is saved and no agent is made
C34_ResultPersistence ==
    /\ (runner_pc # "done" \/ ~storage.given \/ Len(tests) = 0) => storage.calls = << >>
    /\ (runner_pc = "done" /\ Len(tests) = 0) => agents = << >> /\ suite.total = 0
    /\ (runner_pc = "done" /\ storage.given) =>
          /\ suite.results = results
          /\ \A i \in DOMAIN results :
                /\ \E u, v \in DOMAIN storage.calls :
                      /\ CallsFor("update_test", results[i].test_id) = {u}
                      /\ CallsFor("save_result", results[i].test_id) = {v}
                      /\ u < v
                      /\ storage.calls[u].passed = results[i].passed
                      /\ storage.calls[v].passed = results[i].passed
          /\ \A k \in DOMAIN storage.calls :
                \E i \in DOMAIN results : results[i].test_id = storage.calls[k].test_id

\* a parallel fail-fast run with a storage returned the failed result and
\* dropped another test
C34_Witness ==
    /\ runner_pc = "done" /\ storage.given /\ num_workers > 1
    /\ Len(results) = 1 /\ Len(tests) = 2 /\ ~results[1].passed
    /\ Len(storage.calls) = 2

--------------------------------------------------------------------------
(* Part V: BuilderQuery.analyze_failure (core/framework/builder/query.py) *)

MaxDecisions == 3

FAILED == "failed"

\* RunStatus of framework.schemas.run
RunStatus == {"pending", "running", "completed", FAILED, "paused"}

\* a Decision that has no Outcome yet
NoOutcome == << >>

Outcome(success, error) == [success |-> success, error |-> error]

Option(id, description) == [id |-> id, description |-> description]

\* the decisions a node may have logged: a successful one, a failed one with
\* an alternative, an empty input context and constraints, a failed one
\* whose outcome has no error and whose chosen option is not among its
\* options, and one that was never given an outcome
LoggedDecisions ==
    { [node_id |-> "a", intent |-> "fetch",
       options |-> <<Option("o1", "call api")>>, chosen_option_id |-> "o1",
       input_context |-> <<"query">>, active_constraints |-> << >>,
       outcome |-> Outcome(TRUE, None)],
      [node_id |-> "b", intent |-> "rank",
       options |-> <<Option("o1", "use llm"), Option("o2", "use rules")>>,
       chosen_option_id |-> "o1",
       input_context |-> << >>, active_constraints |-> <<"budget", "latency">>,
       outcome |-> Outcome(FALSE, "rate_limit")],
      [node_id |-> "b", intent |-> "rank",
       options |-> <<Option("o1", "use llm"), Option("o2", "use rules")>>,
       chosen_option_id |-> "o3",
       input_context |-> <<"query">>, active_constraints |-> << >>,
       outcome |-> Outcome(FALSE, None)],
      [node_id |-> "c", intent |-> "send",
       options |-> <<Option("o1", "post")>>, chosen_option_id |-> "o1",
       input_context |-> <<"query">>, active_constraints |-> << >>,
       outcome |-> NoOutcome] }

ReportedProblems ==
    { << >>,
      <<[severity |-> "critical", description |-> "Node failed", suggested_fix |-> None],
        [severity |-> "warning", description |-> "slow", suggested_fix |-> "add a cache"]>> }

RunIds == {"run_1", "run_2"}

\* the Runs a storage may hold
Runs ==
    { [id |-> "run_1", status |-> status, decisions |-> ds, problems |-> ps] :
        status \in {"completed", FAILED, "paused"},
        ds \in UNION { [1..n -> LoggedDecisions] : n \in 0..MaxDecisions },
        ps \in ReportedProblems }

\* Decision.was_successful: the decision has an outcome and it succeeded
was_successful(d) == d.outcome # NoOutcome /\ d.outcome.success

\* Decision.chosen_option: the option with the chosen id, if any
chosen_option(d) ==
    LET found == { k \in DOMAIN d.options : d.options[k].id = d.chosen_option_id }
    IN  IF found = {} THEN << >> ELSE <<d.options[CHOOSE k \in found : \A m \in found : k <= m]>>

\* Decision.summary_for_builder: the node, the intent, the chosen action and
\* whether it succeeded
summary_for_builder(d) ==
    <<d.node_id, d.intent,
      IF chosen_option(d) = << >> THEN "unknown" ELSE chosen_option(d)[1].description,
      was_successful(d)>>

RECURSIVE select_failed(_)
\* [d for d in run.decisions if not d.was_successful], line 182
select_failed(ds) ==
    IF ds = << >> THEN << >>
    ELSE (IF was_successful(ds[1]) THEN << >> ELSE <<ds[1]>>) \o select_failed(Tail(ds))

RECURSIVE full_decision_chain(_)
\* the chain of a loop that does not stop at the failure
full_decision_chain(ds) ==
    IF ds = << >> THEN << >>
    ELSE <<summary_for_builder(ds[1])>> \o full_decision_chain(Tail(ds))

RECURSIVE decision_chain(_)
\* the loop of lines 192-196
decision_chain(ds) ==
    IF ds = << >> THEN << >>
    ELSE <<summary_for_builder(ds[1])>>
         \o (IF was_successful(ds[1]) THEN decision_chain(Tail(ds)) ELSE << >>)

RECURSIVE comma_join(_)
\* ', '.join(parts)
comma_join(parts) ==
    IF parts = << >> THEN ""
    ELSE IF Len(parts) = 1 THEN parts[1]
    ELSE parts[1] \o ", " \o comma_join(Tail(parts))

\* the options of a decision that were not chosen
alternatives(d) == SelectSeq(d.options, LAMBDA o : o.id # d.chosen_option_id)

\* the suggestions of one failed decision, lines 405-426
decision_suggestions(d) ==
    (IF Len(d.options) > 1 /\ alternatives(d) # << >>
       THEN <<"Consider alternative: '" \o alternatives(d)[1].description
              \o "' instead of '"
              \o (IF chosen_option(d) = << >> THEN "unknown"
                  ELSE chosen_option(d)[1].description) \o "'">>
       ELSE << >>)
    \o (IF d.input_context = << >>
          THEN <<"Decision '" \o d.intent
                 \o "' had no input context - ensure relevant data is passed">>
          ELSE << >>)
    \o (IF d.active_constraints # << >>
          THEN <<"Review constraints: " \o comma_join(d.active_constraints)
                 \o " - may be too restrictive">>
          ELSE << >>)

RECURSIVE all_decision_suggestions(_)
all_decision_suggestions(ds) ==
    IF ds = << >> THEN << >>
    ELSE decision_suggestions(ds[1]) \o all_decision_suggestions(Tail(ds))

RECURSIVE suggested_fixes(_)
\* lines 429-431
suggested_fixes(ps) ==
    IF ps = << >> THEN << >>
    ELSE (IF ps[1].suggested_fix # None THEN <<ps[1].suggested_fix>> ELSE << >>)
         \o suggested_fixes(Tail(ps))

_generate_suggestions(run, failed_decisions) ==
    all_decision_suggestions(failed_decisions) \o suggested_fixes(run.problems)

FailureAnalysis(run_id, failure_point, root_cause, chain, problems, suggestions) ==
    [run_id |-> run_id, failure_point |-> failure_point, root_cause |-> root_cause,
     decision_chain |-> chain, problems |-> problems, suggestions |-> suggestions]

\* the failure point and the root cause, lines 183-190
failure_point_of(failed_decisions) ==
    IF failed_decisions = << >>
      THEN <<"Unknown - no decision marked as failed">>
      ELSE summary_for_builder(failed_decisions[1])

root_cause_of(failed_decisions) ==
    IF failed_decisions = << >>
      THEN "Run failed but all decisions succeeded (external cause?)"
      ELSE IF failed_decisions[1].outcome # NoOutcome
             THEN failed_decisions[1].outcome.error
             ELSE "Unknown"

\* BuilderQuery.analyze_failure: None is the empty tuple
analyze(run_id, run, failed_decisions) ==
    FailureAnalysis(run_id,
                    failure_point_of(failed_decisions),
                    root_cause_of(failed_decisions),
                    decision_chain(run.decisions),
                    [k \in DOMAIN run.problems |->
                        "[" \o run.problems[k].severity \o "] " \o run.problems[k].description],
                    _generate_suggestions(run, failed_decisions))

analyze_failure(st, run_id) ==
    IF run_id \notin DOMAIN st \/ st[run_id].status # FAILED THEN << >>
    ELSE analyze(run_id, st[run_id], select_failed(st[run_id].decisions))

QueryInit ==
    /\ ExecutorIdle
    /\ WorkerIdle
    /\ ParserIdle
    /\ ClientIdle
    /\ RunnerIdle
    /\ \E run \in Runs : runs = [r \in {run.id} |-> run]
    /\ analysis = << >>
    /\ build_session = << >>
    /\ answer = << >>
    /\ builder_calls = 0
    /\ PlanIdle

\* analysis = query.analyze_failure(run_id)
AnalyzeFailure ==
    /\ analysis = << >>
    /\ \E run_id \in RunIds :
          analysis' = <<[run_id |-> run_id, returned |-> analyze_failure(runs, run_id)]>>
    /\ UNCHANGED <<runs, build_session, answer, builder_calls>>
    /\ UNCHANGED <<executor_vars, worker_vars, parser_vars, client_vars, runner_vars, plan_vars>>

QueryNext == AnalyzeFailure

QuerySpec == QueryInit /\ [][QueryNext]_vars

\* the first unsuccessful decision of a run, 0 when there is none
first_unsuccessful(ds) ==
    IF \A k \in DOMAIN ds : was_successful(ds[k]) THEN 0
    ELSE CHOOSE k \in DOMAIN ds :
            ~was_successful(ds[k]) /\ \A m \in 1..(k - 1) : was_successful(ds[m])

\* the error of a decision's outcome; a decision without outcome has none
outcome_error(d) == IF d.outcome = NoOutcome THEN None ELSE d.outcome.error

\* what analyze_failure was asked and what the storage holds for it
Analysed(run_id, returned) == analysis = <<[run_id |-> run_id, returned |-> returned]>>

\* the parts of the claim that do not concern the root cause
AnalysisShape(run_id, fa, root_cause(_)) ==
    IF run_id \notin DOMAIN runs \/ runs[run_id].status # FAILED THEN fa = << >>
    ELSE /\ fa # << >>
         /\ fa.run_id = run_id
         /\ \E f \in {first_unsuccessful(runs[run_id].decisions)} :
               IF f = 0
                 THEN fa.decision_chain =
                        [k \in DOMAIN runs[run_id].decisions |->
                            summary_for_builder(runs[run_id].decisions[k])]
                 ELSE /\ fa.failure_point = summary_for_builder(runs[run_id].decisions[f])
                      /\ fa.root_cause = root_cause(runs[run_id].decisions[f])
                      /\ fa.decision_chain =
                            [k \in 1..f |-> summary_for_builder(runs[run_id].decisions[k])]
                      /\ fa.decision_chain[Len(fa.decision_chain)] = fa.failure_point

\* C35 as stated: analyze_failure returns nothing unless the run exists and
\* has failed; otherwise the failure point is the first unsuccessful
\* decision, the root cause is the error of that decision's outcome, and the
\* decision chain is the prefix of the decisions up to and including it (all
\* decisions when none is unsuccessful), ending with the failure point
C35_FailureAnalysis ==
    \A run_id \in RunIds :
        analysis # << >> /\ analysis[1].run_id = run_id
            => AnalysisShape(run_id, analysis[1].returned, outcome_error)

\* the root cause analyze_failure gives: the outcome's error, "Unknown" for
\* a decision that was never given an outcome
error_or_unknown(d) == IF d.outcome = NoOutcome THEN "Unknown" ELSE d.outcome.error

\* C35 amended: as stated, except that the root cause of a first
\* unsuccessful decision without outcome is the text "Unknown"
C35_FailureAnalysisAmended ==
    \A run_id \in RunIds :
        analysis # << >> /\ analysis[1].run_id = run_id
            => AnalysisShape(run_id, analysis[1].returned, error_or_unknown)

\* a failed run of three decisions was analysed whose second decision is
\* the first unsuccessful one and was never given an outcome
C35_Witness ==
    /\ analysis # << >>
    /\ analysis[1].run_id \in DOMAIN runs
    /\ runs[analysis[1].run_id].status = FAILED
    /\ Len(runs[analysis[1].run_id].decisions) = 3
    /\ first_unsuccessful(runs[analysis[1].run_id].decisions) = 2
    /\ runs[analysis[1].run_id].decisions[2].outcome = NoOutcome
    /\ analysis[1].returned.root_cause = "Unknown"
    /\ Len(analysis[1].returned.decision_chain) = 2

\* the results collected for a test
ResultsOf(t) == { i \in DOMAIN results : results[i].test_id = t }

RECURSIVE duration_of_tests(_)
\* the sum of the durations of the results of tests 1..n
duration_of_tests(n) ==
    IF n = 0 THEN 0
    ELSE results[CHOOSE i \in ResultsOf(n) : TRUE].duration_ms + duration_of_tests(n - 1)

\* when run_all returns without fail-fast, every test has exactly one
\* result, total is the number of tests, passed + failed = total and
\* duration_ms is the sum of the durations of the tests' results
SuiteComplete ==
    (runner_pc = "done" /\ ~fail_fast) =>
        /\ \A t \in DOMAIN tests : Cardinality(ResultsOf(t)) = 1
        /\ Len(results) = Len(tests)
        /\ suite.results = results
        /\ suite.total = Len(tests)
        /\ suite.passed = Cardinality({ i \in DOMAIN results : results[i].passed })
        /\ suite.passed + suite.failed = suite.total
        /\ suite.duration_ms = duration_of_tests(Len(tests))

\* run_all ran the tests in the pool
ParallelMode == num_workers > 1 /\ Len(tests) > 1

--------------------------------------------------------------------------
(* The success flag of GraphExecutor.execute *)

\* the next iteration of the loop raises: the current node is not in the
\* graph, or it is a function node that was not registered
IterationRaises ==
    \/ ~ HasNode(graph, current_node_id)
    \/ /\ HasNode(graph, current_node_id)
       /\ ImplementationMissing(get_node(graph, current_node_id), node_registry)

\* the Runtime holds a critical Problem with this description
CriticalProblem(description) ==
    \E i \in DOMAIN runtime.problems :
        runtime.problems[i] = [severity |-> "critical", description |-> description]

\* C37: a returned result is unsuccessful only if the graph was invalid or
\* an exception was thrown in the loop (the Run is then closed as failed
\* with the exception reported); every call that returns otherwise - after a
\* node failure, also on a terminal or pause node, with Problems reported,
\* without a matching edge or at max_steps - closes the Run with
\* end_run(success=true) and returns success=true without error
C37_RunSuccessFlag ==
    /\ []((pc = "done" /\ calls > 0 /\ ~ result.success) =>
            \/ validate(graph) # {}
            \/ runtime.status = "failed" /\ CriticalProblem(result.error))
    /\ []((pc = "done" /\ calls > 0 /\ result.success) =>
            result.error = NoText /\ runtime.status = "completed")
    /\ [][(pc = "loop" /\ pc' = "done") =>
            IF IterationRaises /\ LoopGuard(steps, graph)
            THEN ~ result'.success /\ runtime'.status = "failed"
            ELSE /\ result'.success
                 /\ result'.error = NoText
                 /\ runtime'.status = "completed"
                 /\ runtime'.ended = runtime.ended + 1]_vars

\* a call returned success after its terminal node had failed for good and
\* a critical Problem had been reported for it
C37_Witness ==
    /\ pc = "done" /\ result.success /\ result.error = NoText
    /\ runtime.status = "completed"
    /\ execs # << >>
    /\ ~ Last(execs).success /\ ~ Last(execs).retried
    /\ Last(execs).node \in graph.terminal_nodes
    /\ CriticalProblem(<<"Node failed", Last(execs).node>>)

--------------------------------------------------------------------------
(* Exceptions in WorkerNode.execute *)

\* the action types _dispatch knows
DispatchedTypes == {"llm_call", "tool_use", "sub_graph", "function", "code_execution"}

\* what resolving the inputs of the last call did
LastResolved == _resolve_inputs(step.inputs, context)

\* how the dispatch of the last call ended, when its inputs were resolved
LastDispatched == _dispatch(worker, step.action, LastResolved.value, context, worker.does)

\* the last call returned the result made from an exception with this text,
\* after recording a failed outcome for the call's decision
ReturnedException(message) ==
    /\ ~ step_result.success
    /\ step_result.error = PyStr(message)
    /\ step_result.error_type = PyStr("exception")
    /\ ~ Last(decisions).outcome.success
    /\ Last(decisions).record_calls = 1

\* C38: no call of WorkerNode.execute lets an exception through; a call in
\* which resolving the inputs or dispatching the action raised returns a
\* result with success false, the exception's text as error and error_type
\* 'exception', a failed outcome having been recorded for its decision; a
\* call for an action type that _dispatch does not know returns a failed
\* result of type invalid_action
C38_NoPropagation ==
    Called =>
        /\ ~ propagated
        /\ LastResolved.raises => ReturnedException(LastResolved.message)
        /\ (~ LastResolved.raises /\ LastDispatched.raised) =>
              ReturnedException(LastDispatched.message)
        /\ (~ LastResolved.raises /\ step.action.action_type \notin DispatchedTypes) =>
              /\ ~ step_result.success
              /\ step_result.error_type = PyStr("invalid_action")

\* a call whose dispatch raised (code execution with a context that is no
\* dict) returned the result made from the exception
C38_Witness ==
    /\ Called
    /\ ~ LastResolved.raises
    /\ LastDispatched.raised
    /\ ReturnedException(LastDispatched.message)
    /\ ~ propagated

--------------------------------------------------------------------------
(* Part VI: the build session of the agent builder server                 *)
(* (core/framework/mcp/agent_builder_server.py)                           *)

MaxBuilderCalls == 3

\* BuildSession.__init__: the session create_session makes
BuildSession == [nodes |-> << >>, edges |-> << >>]

\* the NodeSpec add_node builds
BuilderNodeSpec(node_id, node_type, tools_list, routes_dict) ==
    [id |-> node_id, node_type |-> node_type, tools |-> tools_list, routes |-> routes_dict]

\* the EdgeSpec add_edge builds; an empty condition_expr is stored as None
BuilderEdgeSpec(edge_id, source, target, condition, condition_expr) ==
    [id |-> edge_id, source |-> source, target |-> target, condition |-> condition,
     condition_expr |-> IF condition_expr = "" THEN None ELSE condition_expr]

\* the JSON texts handed to add_node and update_node, parsed once
JsonArguments == {"[]", "[\"search\"]", "{}", "{\"ok\": \"b\"}"}

ParsedArguments == [text \in JsonArguments |-> json_loads(text).val]

\* not value, for a list, a dict or a str
Empty(value) == value.v = << >> \/ (value.t = "str" /\ value.v = "")

NodeIdsOffered == {"a", "b"}

EdgeIdsOffered == {"e1", "e2"}

\* what add_node is called with: the id, the type, the tools and the routes
NodeArguments ==
    { [node_id |-> id, node_type |-> "function", tools |-> "[]", routes |-> "{}"] :
        id \in NodeIdsOffered }
    \cup { [node_id |-> id, node_type |-> "llm_tool_use", tools |-> tools, routes |-> "{}"] :
             id \in NodeIdsOffered, tools \in {"[]", "[\"search\"]"} }
    \cup { [node_id |-> id, node_type |-> "router", tools |-> "[]", routes |-> routes] :
             id \in NodeIdsOffered, routes \in {"{}", "{\"ok\": \"b\"}"} }

\* what update_node is called with: "" leaves a field as it is
NodeUpdates ==
    { [node_id |-> id, node_type |-> type, tools |-> tools, routes |-> ""] :
        id \in NodeIdsOffered, type \in {"", "llm_tool_use"}, tools \in {"", "[]"} }
    \ { [node_id |-> id, node_type |-> "", tools |-> "", routes |-> ""] : id \in NodeIdsOffered }

\* what add_edge is called with
EdgeArguments ==
    { [edge_id |-> id, source |-> source, target |-> target,
       condition |-> cond[1], condition_expr |-> cond[2]] :
        id \in EdgeIdsOffered, source \in NodeIdsOffered, target \in NodeIdsOffered,
        cond \in { <<"on_success", "">>, <<"conditional", "">>, <<"conditional", "x > 0">> } }

\* the position of the first element with this id, 0 if there is none
index_of(components, id) ==
    IF \E i \in DOMAIN components : components[i].id = id
    THEN CHOOSE i \in DOMAIN components :
            components[i].id = id /\ \A j \in 1..(i - 1) : components[j].id # id
    ELSE 0

\* list.pop(i)
pop(components, i) ==
    SubSeq(components, 1, i - 1) \o SubSeq(components, i + 1, Len(components))

\* the answer of a tool
Answer(tool, valid, errors) == [tool |-> tool, valid |-> valid, errors |-> errors]

\* the errors add_node and update_node find in a node, lines 201-204 and
\* 360-363
node_errors(node) ==
    (IF node.node_type = "llm_tool_use" /\ Empty(node.tools)
       THEN <<"must specify tools">> ELSE << >>)
    \o (IF node.node_type = "router" /\ Empty(node.routes)
          THEN <<"must specify routes">> ELSE << >>)

\* the errors add_edge finds in an edge, lines 277-282
edge_errors(session, edge) ==
    (IF index_of(session.nodes, edge.source) = 0 THEN <<"Source node not found">> ELSE << >>)
    \o (IF index_of(session.nodes, edge.target) = 0 THEN <<"Target node not found">> ELSE << >>)
    \o (IF edge.condition = "conditional" /\ edge.condition_expr = None
          THEN <<"needs condition_expr">> ELSE << >>)

\* the session after add_node and add_edge: the component was appended
\* before it was checked, lines 191 and 272
appended_first(session, stored, errors) == stored

BuilderInit ==
    /\ ExecutorIdle
    /\ WorkerIdle
    /\ ParserIdle
    /\ ClientIdle
    /\ RunnerIdle
    /\ runs = << >>
    /\ analysis = << >>
    /\ build_session = BuildSession
    /\ answer = << >>
    /\ builder_calls = 0
    /\ PlanIdle

\* what a tool call leaves alone
BuilderCall ==
    /\ builder_calls < MaxBuilderCalls
    /\ builder_calls' = builder_calls + 1
    /\ UNCHANGED <<runs, analysis>>
    /\ UNCHANGED <<executor_vars, worker_vars, parser_vars, client_vars, runner_vars, plan_vars>>

\* add_node, lines 155-235
add_node ==
    /\ BuilderCall
    /\ \E given \in NodeArguments :
          \E node \in { BuilderNodeSpec(given.node_id, given.node_type,
                                        ParsedArguments[given.tools],
                                        ParsedArguments[given.routes]) } :
             IF index_of(build_session.nodes, given.node_id) # 0
             THEN /\ answer' = Answer("add_node", FALSE, <<"already exists">>)
                  /\ UNCHANGED build_session
             ELSE /\ build_session' =
                        appended_first(build_session,
                                       [build_session EXCEPT !.nodes = Append(@, node)],
                                       node_errors(node))
                  /\ answer' = Answer("add_node", node_errors(node) = << >>, node_errors(node))

\* add_edge, lines 239-310
add_edge ==
    /\ BuilderCall
    /\ \E given \in EdgeArguments :
          \E edge \in { BuilderEdgeSpec(given.edge_id, given.source, given.target,
                                        given.condition, given.condition_expr) } :
             IF index_of(build_session.edges, given.edge_id) # 0
             THEN /\ answer' = Answer("add_edge", FALSE, <<"already exists">>)
                  /\ UNCHANGED build_session
             ELSE /\ build_session' =
                        appended_first(build_session,
                                       [build_session EXCEPT !.edges = Append(@, edge)],
                                       edge_errors(build_session, edge))
                  /\ answer' = Answer("add_edge", edge_errors(build_session, edge) = << >>,
                                      edge_errors(build_session, edge))

\* the node update_node leaves, lines 338-354
updated(node, given) ==
    [node EXCEPT
        !.node_type = IF given.node_type # "" THEN given.node_type ELSE @,
        !.tools = IF given.tools # "" THEN ParsedArguments[given.tools] ELSE @,
        !.routes = IF given.routes # "" THEN ParsedArguments[given.routes] ELSE @]

\* update_node, lines 314-394
update_node ==
    /\ BuilderCall
    /\ \E given \in NodeUpdates :
          \E i \in { index_of(build_session.nodes, given.node_id) } :
             IF i = 0
             THEN /\ answer' = Answer("update_node", FALSE, <<"not found">>)
                  /\ UNCHANGED build_session
             ELSE /\ build_session' =
                        [build_session EXCEPT !.nodes[i] = updated(@, given)]
                  /\ answer' = Answer("update_node",
                                      node_errors(updated(build_session.nodes[i], given)) = << >>,
                                      node_errors(updated(build_session.nodes[i], given)))

\* delete_node, lines 398-431: the node and the edges connected to it go
delete_node ==
    /\ BuilderCall
    /\ \E node_id \in NodeIdsOffered :
          \E i \in { index_of(build_session.nodes, node_id) } :
             IF i = 0
             THEN /\ answer' = Answer("delete_node", FALSE, <<"not found">>)
                  /\ UNCHANGED build_session
             ELSE /\ build_session' =
                        [nodes |-> pop(build_session.nodes, i),
                         edges |-> SelectSeq(build_session.edges,
                                             LAMBDA e : ~ (e.source = node_id \/ e.target = node_id))]
                  /\ answer' = Answer("delete_node", TRUE, << >>)

\* delete_edge, lines 435-459
delete_edge ==
    /\ BuilderCall
    /\ \E edge_id \in EdgeIdsOffered :
          \E i \in { index_of(build_session.edges, edge_id) } :
             IF i = 0
             THEN /\ answer' = Answer("delete_edge", FALSE, <<"not found">>)
                  /\ UNCHANGED build_session
             ELSE /\ build_session' = [build_session EXCEPT !.edges = pop(@, i)]
                  /\ answer' = Answer("delete_edge", TRUE, << >>)

BuilderNext == add_node \/ add_edge \/ update_node \/ delete_node \/ delete_edge

BuilderSpec == BuilderInit /\ [][BuilderNext]_vars

\* the ids of a list of components
IdsOf(components) == { components[i].id : i \in DOMAIN components }

\* no two components of a list have the same id
UniqueIds(components) ==
    \A i, j \in DOMAIN components : components[i].id = components[j].id => i = j

\* C39: an add_node or add_edge call that answers valid=false leaves the
\* node list and the edge list of the session as they were; after any
\* sequence of add_node, add_edge, update_node, delete_node and delete_edge
\* calls node ids and edge ids are unique and the source and the target of
\* every stored edge are nodes of the session
C39_RejectedComponents ==
    /\ [][(builder_calls' # builder_calls /\ answer'.tool \in {"add_node", "add_edge"}
           /\ ~ answer'.valid) => build_session' = build_session]_vars
    /\ [](/\ UniqueIds(build_session.nodes)
          /\ UniqueIds(build_session.edges)
          /\ \A i \in DOMAIN build_session.edges :
                /\ build_session.edges[i].source \in IdsOf(build_session.nodes)
                /\ build_session.edges[i].target \in IdsOf(build_session.nodes))

--------------------------------------------------------------------------
(* Part VII: validate_plan and simulate_plan_execution                    *)
(* (core/framework/mcp/agent_builder_server.py)                           *)

MaxPlanSteps == 3

\* a step of a plan as json.loads gives it: its id, its dependencies, the
\* context variables its inputs refer to and its expected outputs
Step(id, dependencies, references, expected_outputs) ==
    [id |-> id, dependencies |-> dependencies, references |-> references,
     expected_outputs |-> expected_outputs]

DependencyLists == { << >>, <<"a">>, <<"b">>, <<"a", "b">>, <<"z">> }

\* the steps offered: a produces out, b may refer to $out
StepsOffered ==
    { Step("a", deps, {}, {"out"}) : deps \in DependencyLists }
    \cup { Step("b", deps, refs, {}) : deps \in DependencyLists, refs \in { {}, {"out"} } }

\* the plans handed to the tools: id and goal_id are present, the context
\* is empty
Plans == UNION { [1..n -> StepsOffered] : n \in 0..MaxPlanSteps }

\* the elements of a sequence, as a set
Elements(q) == { q[i] : i \in DOMAIN q }

\* {s.get("id") for s in steps if "id" in s}, line 1686
step_ids(plan_steps) == { plan_steps[i].id : i \in DOMAIN plan_steps }

\* next((s for s in steps if s.get("id") == step_id), None), line 1724: the
\* position of the first step with the id, 0 for None
first_with_id(plan_steps, step_id) ==
    IF step_id \in step_ids(plan_steps)
    THEN CHOOSE i \in DOMAIN plan_steps :
            plan_steps[i].id = step_id /\ \A j \in 1..(i - 1) : plan_steps[j].id # step_id
    ELSE 0

\* steps_by_id, line 1687: the position of the last step with the id
last_with_id(plan_steps, step_id) ==
    CHOOSE i \in DOMAIN plan_steps :
        plan_steps[i].id = step_id /\ \A j \in (i + 1)..Len(plan_steps) : plan_steps[j].id # step_id

RECURSIVE has_cycle(_, _, _)
\* has_cycle, lines 1715-1731: a step on the current path is reached again
has_cycle(plan_steps, step_id, on_path) ==
    IF step_id \in on_path THEN TRUE
    ELSE IF first_with_id(plan_steps, step_id) = 0 THEN FALSE
    ELSE \E dep \in Elements(plan_steps[first_with_id(plan_steps, step_id)].dependencies) :
            has_cycle(plan_steps, dep, on_path \cup {step_id})

RECURSIVE computable(_, _, _)
\* the steps whose available context the loop of lines 1754-1777 computes:
\* those whose dependencies were all computed before
computable(plan_steps, computed, rounds) ==
    IF rounds = 0 THEN computed
    ELSE computable(plan_steps,
                    computed \cup
                      { id \in step_ids(plan_steps) :
                          Elements(plan_steps[last_with_id(plan_steps, id)].dependencies)
                              \subseteq computed },
                    rounds - 1)

RECURSIVE available_context(_, _, _)
\* the context keys available to a computed step: the outputs and the
\* available keys of its dependencies, lines 1767-1774
available_context(plan_steps, step_id, depth) ==
    IF depth = 0 THEN {}
    ELSE UNION { plan_steps[last_with_id(plan_steps, dep)].expected_outputs
                 \cup available_context(plan_steps, dep, depth - 1) :
                 dep \in Elements(plan_steps[last_with_id(plan_steps, step_id)].dependencies) }

\* the variables a step refers to that its available context does not hold,
\* lines 1789-1795
missing_vars(plan_steps, i) ==
    plan_steps[i].references \
        (IF plan_steps[i].id \in computable(plan_steps, {}, Len(plan_steps))
         THEN available_context(plan_steps, plan_steps[i].id, Len(plan_steps))
         ELSE {})

\* validate_plan, lines 1655-1831, for a plan that is valid JSON and has its
\* required fields; the errors are kept as a set
validate_plan(plan_steps) ==
    [valid |-> ~ \E i \in DOMAIN plan_steps :
                    \/ ~ (Elements(plan_steps[i].dependencies) \subseteq step_ids(plan_steps))
                    \/ has_cycle(plan_steps, plan_steps[i].id, {})
                    \/ missing_vars(plan_steps, i) # {} /\ plan_steps[i].dependencies # << >>,
     errors |->
        { "unknown dependency" : i \in { j \in DOMAIN plan_steps :
              ~ (Elements(plan_steps[j].dependencies) \subseteq step_ids(plan_steps)) } }
        \cup { "Circular dependency detected" : i \in { j \in DOMAIN plan_steps :
                 has_cycle(plan_steps, plan_steps[j].id, {}) } }
        \cup { "references not provided" : i \in { j \in DOMAIN plan_steps :
                 missing_vars(plan_steps, j) # {} /\ plan_steps[j].dependencies # << >> } },
     step_count |-> Len(plan_steps)]

\* the steps that are ready, lines 1867-1874, as positions in plan order
ready(plan_steps, done) ==
    { i \in DOMAIN plan_steps :
        /\ plan_steps[i].id \notin done
        /\ Elements(plan_steps[i].dependencies) \subseteq done }

\* the first of the ready steps
Lowest(positions) == CHOOSE i \in positions : \A j \in positions : i <= j

RECURSIVE simulate(_, _, _, _, _)
\* the loop of lines 1863-1894
simulate(plan_steps, done, execution_order, iteration, limit) ==
    IF ~ (Cardinality(done) < Len(plan_steps) /\ iteration < limit)
       \/ ready(plan_steps, done) = {}
    THEN execution_order
    ELSE simulate(plan_steps,
                  done \cup {plan_steps[Lowest(ready(plan_steps, done))].id},
                  Append(execution_order,
                         [iteration |-> iteration + 1,
                          step_id |-> plan_steps[Lowest(ready(plan_steps, done))].id,
                          dependencies_met |->
                              plan_steps[Lowest(ready(plan_steps, done))].dependencies]),
                  iteration + 1, limit)

\* the answer of a simulation with this execution order, lines 1896-1904
Simulated(plan_steps, execution_order) ==
    [success |-> TRUE,
     execution_order |-> execution_order,
     steps_simulated |-> Len(execution_order),
     remaining_steps |->
        SelectSeq([i \in DOMAIN plan_steps |-> plan_steps[i].id],
                  LAMBDA id : \A k \in DOMAIN execution_order : execution_order[k].step_id # id),
     plan_complete |->
        \A i \in DOMAIN plan_steps :
            \E k \in DOMAIN execution_order : execution_order[k].step_id = plan_steps[i].id]

\* the answer for a plan that validate_plan refuses, lines 1852-1857
NotSimulated ==
    [success |-> FALSE, execution_order |-> << >>, steps_simulated |-> 0,
     remaining_steps |-> << >>, plan_complete |-> FALSE]

\* simulate_plan_execution, lines 1834-1904
simulate_plan_execution(plan_steps, limit) ==
    IF ~ validate_plan(plan_steps).valid THEN NotSimulated
    ELSE Simulated(plan_steps, simulate(plan_steps, {}, << >>, 0, limit))

PlanInit ==
    /\ ExecutorIdle
    /\ WorkerIdle
    /\ ParserIdle
    /\ ClientIdle
    /\ RunnerIdle
    /\ runs = << >>
    /\ analysis = << >>
    /\ build_session = << >>
    /\ answer = << >>
    /\ builder_calls = 0
    /\ plan \in Plans
    /\ plan_max_steps \in 0..(MaxPlanSteps + 1)
    /\ validation = << >>
    /\ simulation = << >>

\* validation = validate_plan(plan_json)
ValidatePlan ==
    /\ validation = << >>
    /\ validation' = validate_plan(plan)
    /\ UNCHANGED <<plan, plan_max_steps, simulation>>
    /\ UNCHANGED <<runs, analysis, build_session, answer, builder_calls>>
    /\ UNCHANGED <<executor_vars, worker_vars, parser_vars, client_vars, runner_vars>>

\* simulation = simulate_plan_execution(plan_json, max_steps)
SimulatePlanExecution ==
    /\ simulation = << >>
    /\ simulation' = simulate_plan_execution(plan, plan_max_steps)
    /\ UNCHANGED <<plan, plan_max_steps, validation>>
    /\ UNCHANGED <<runs, analysis, build_session, answer, builder_calls>>
    /\ UNCHANGED <<executor_vars, worker_vars, parser_vars, client_vars, runner_vars>>

PlanNext == ValidatePlan \/ SimulatePlanExecution

PlanSpec == PlanInit /\ [][PlanNext]_vars

\* the position at which the simulation lists a step id, 0 if it does not
ListedAt(step_id) ==
    IF \E k \in DOMAIN simulation.execution_order :
          simulation.execution_order[k].step_id = step_id
    THEN CHOOSE k \in DOMAIN simulation.execution_order :
            simulation.execution_order[k].step_id = step_id
    ELSE 0

RECURSIVE DependsOn(_, _, _)
\* step id a depends on step id b through at most n dependencies
DependsOn(a, b, n) ==
    /\ n > 0
    /\ \E i \in DOMAIN plan :
          /\ plan[i].id = a
          /\ \E dep \in Elements(plan[i].dependencies) :
                dep = b \/ DependsOn(dep, b, n - 1)

\* some step depends on itself, directly or through other steps
Circular == \E i \in DOMAIN plan : DependsOn(plan[i].id, plan[i].id, Len(plan))

\* C40: the simulation of an accepted plan lists each step at most once and
\* only after all of its dependencies; with max_steps >= the number of
\* steps every step is listed and plan_complete is true; plan_complete is
\* true only if no step remains; a plan with a dependency cycle is rejected
\* by validate_plan and not simulated
C40_SimulationOrder ==
    /\ (simulation # << >> /\ simulation.success) =>
          /\ \A k, m \in DOMAIN simulation.execution_order :
                simulation.execution_order[k].step_id = simulation.execution_order[m].step_id
                    => k = m
          /\ \A i \in DOMAIN plan :
                ListedAt(plan[i].id) # 0 =>
                    \A dep \in Elements(plan[i].dependencies) :
                        ListedAt(dep) # 0 /\ ListedAt(dep) < ListedAt(plan[i].id)
          /\ plan_max_steps >= Len(plan) =>
                /\ \A i \in DOMAIN plan : ListedAt(plan[i].id) # 0
                /\ simulation.plan_complete
          /\ simulation.plan_complete =>
                /\ simulation.remaining_steps = << >>
                /\ \A i \in DOMAIN plan : ListedAt(plan[i].id) # 0
    /\ (validation # << >> /\ Circular) => ~ validation.valid
    /\ (simulation # << >> /\ Circular) => ~ simulation.success

====
